---- MODULE Spec2Model ----
(***************************************************************************)
(* A model of the training / prediction core of multiview_models:          *)
(*   src/src/models/utils_deep.py    Optimisation_VAE and its subclasses   *)
(*   src/multiae/base/dataloaders.py MultiviewDataModule                   *)
(*                                                                         *)
(* Samples are identified by their index 0..n-1 in the caller's arrays, so *)
(* a view (or a slice of one) is the sequence of the original sample       *)
(* indices of its rows, and a label vector is the sequence of the original *)
(* sample indices its entries belong to.  Every view of a collection has   *)
(* the same rows, so one sequence stands for each view of the collection.  *)
(***************************************************************************)
EXTENDS Integers, Sequences, FiniteSets, TLC

\* ------------------------------------------------------------------ bounds
MaxN == 4          \* largest sample count n
MaxBatch == 3      \* largest integer batch size
MaxEpochs == 3     \* largest n_epochs
MaxCalls == 2      \* split calls recorded in one run
MaxAnswers == 3     \* prompts answered in one save
MaxSNPs == 2        \* columns of a genotype matrix
MaxViews == 3       \* largest n_views of an MSE_results call
MaxTerm == 2        \* largest squared-error term
MaxBeta == 3        \* largest KL weight beta of an mVAE
MaxWarmup == 3      \* largest warmup length of an mVAE
MaxCurrentEpoch == 4 \* largest epoch at which loss_function is called
MaxK == 7           \* largest number K of importance samples
MaxBatchK == 4      \* largest chunk size batch_size_K
MaxDraws == 3       \* draws made between the split calls of one run
MaxSaveN == 2       \* samples per view of a fit that saves the model
MaxSaveEpochs == 2  \* epochs of a fit that saves the model

\* Python's None for the batch_size attribute (an integer batch size is >= 1).
None == 0

\* random.seed(42) in data_split.
SplitSeed == 42

NViews == 2
Views == 1..NViews

\* ------------------------------------------------------- sequence helpers
Range(s) == {s[i] : i \in DOMAIN s}

\* range(n) as a list: 0, 1, ..., n-1.
Arange(n) == [i \in 1..n |-> i - 1]

\* The rows of a view at the (0-based) index list idx: data_[idx, :].
Take(rows, idx) == [k \in 1..Len(idx) |-> rows[idx[k] + 1]]

Min(a, b) == IF a < b THEN a ELSE b

\* ceil(a / b) for b >= 1.
CeilDiv(a, b) == (a + b - 1) \div b

\* ------------------------------------------------------ random generator
\* Python's global generator (random.*) is CPython's Mersenne Twister.  Its
\* state after random.seed(a) and i 32-bit outputs is [seed |-> a, pos |-> i];
\* it does not recur.  The calls of the program draw at most three bits at a
\* time (getrandbits(k) is the top k bits of one 32-bit output), so the
\* generator is given by the top three bits of its successive outputs.

\* The top three bits of the first 64 outputs after random.seed(42).
GenrandTop3_Seed42 ==
    <<
       5, 0, 0, 5, 2, 1, 1, 1, 5, 0, 5, 5, 7, 4, 0, 4,
       3, 0, 0, 0, 1, 1, 4, 4, 0, 4, 1, 5, 5, 5, 4, 3,
       1, 3, 4, 2, 6, 6, 0, 6, 6, 1, 5, 3, 2, 2, 1, 1,
       7, 6, 2, 0, 0, 3, 0, 2, 6, 2, 4, 2, 6, 0, 5, 3 >>

\* The top three bits of the first 64 outputs after random.seed(1).
GenrandTop3_Seed1 ==
    <<
       1, 4, 6, 6, 6, 0, 2, 0, 3, 6, 3, 3, 5, 3, 6, 1,
       0, 3, 0, 7, 6, 3, 3, 4, 6, 6, 0, 5, 3, 2, 5, 6,
       1, 4, 7, 0, 7, 2, 0, 0, 0, 5, 4, 0, 7, 7, 3, 5,
       1, 7, 3, 5, 0, 4, 1, 6, 3, 7, 3, 4, 1, 2, 1, 5 >>

GenrandTop3(a) == IF a = SplitSeed THEN GenrandTop3_Seed42 ELSE GenrandTop3_Seed1

RngStates == [seed : {1, SplitSeed}, pos : 0..(Len(GenrandTop3_Seed42) - 1)]

\* random.seed(a)
SeedState(a) == [seed |-> a, pos |-> 0]

\* One 32-bit output is consumed.
RngStep(s) == [s EXCEPT !.pos = s.pos + 1]

\* n.bit_length() for 1 <= n <= 7
BitLength(n) == IF n < 2 THEN 1 ELSE IF n < 4 THEN 2 ELSE 3

\* random.getrandbits(k) drawn in state s, 1 <= k <= 3.
GetRandBits(s, k) ==
    LET top3 == GenrandTop3(s.seed)[s.pos + 1]
    IN  IF k = 3 THEN top3 ELSE IF k = 2 THEN top3 \div 2 ELSE top3 \div 4

\* random._randbelow(m) drawn in state s (m >= 1): getrandbits(k) with
\* k = m.bit_length() is drawn again until it is below m.  Returns
\* [value |-> the number, rng |-> the state left].
RECURSIVE RandBelow(_, _)
RandBelow(s, m) ==
    LET r == GetRandBits(s, BitLength(m))
    IN  IF r < m THEN [value |-> r, rng |-> RngStep(s)]
        ELSE RandBelow(RngStep(s), m)

\* random.sample(pool, k) of CPython for a small population: k times, pick
\* position j = randbelow(remaining); take pool[j]; move the last remaining
\* element into position j.  Returns [out |-> the sample, rng |-> new state].
\* One pick: the pool after position j (1-based) was taken.
PoolAfter(pool, j) ==
    [i \in 1..(Len(pool) - 1) |-> IF i = j THEN pool[Len(pool)] ELSE pool[i]]

RECURSIVE SampleLoop(_, _, _, _)
SampleLoop(pool, k, s, out) ==
    IF k = 0 THEN [out |-> out, rng |-> s]
    ELSE LET j == RandBelow(s, Len(pool))
         IN  SampleLoop(PoolAfter(pool, j.value + 1), k - 1, j.rng,
                        Append(out, pool[j.value + 1]))

Sample(n, k, s) == SampleLoop(Arange(n), k, s, <<>>)

\* np.setdiff1d(list(range(n)), idx): the sorted indices not in idx.
RECURSIVE SortedFrom(_, _, _)
SortedFrom(i, n, S) ==
    IF i >= n THEN <<>>
    ELSE IF i \in S THEN <<i>> \o SortedFrom(i + 1, n, S)
    ELSE SortedFrom(i + 1, n, S)

SetDiff1d(n, idx) == SortedFrom(0, n, (0..(n - 1)) \ Range(idx))

\* ------------------------------------------------------------- fractions
\* A train fraction is a pair <<num, den>> standing for num / den.
TrainFractions == {<<1, 2>>, <<4, 5>>}

\* int(n * f): truncation of the product.
IntOf(n, f) == (n * f[1]) \div f[2]

\* Python's round(n * f): to the nearest integer, ties to the even one.
RoundOf(n, f) ==
    LET q == (n * f[1]) \div f[2]
        r == (n * f[1]) % f[2]
    IN  IF 2 * r < f[2] THEN q
        ELSE IF 2 * r > f[2] THEN q + 1
        ELSE IF q % 2 = 0 THEN q ELSE q + 1

\* The literal 0.8 of data_split.
FixedFraction == <<4, 5>>

\* ------------------------------------------------------------- the split
\* Optimisation_VAE.data_split(data, split): the generator is re-seeded,
\* int(n * 0.8) indices are sampled whatever `split` is, and only the views
\* are sliced.  Returns the two index lists and the generator state left.
DataSplitSize(n, split) == IntOf(n, FixedFraction)

DataSplit(n, split) ==
    LET sm == Sample(n, DataSplitSize(n, split), SeedState(SplitSeed))
    IN  [idx_1 |-> sm.out, idx_2 |-> SetDiff1d(n, sm.out), rng |-> sm.rng]

\* MultiviewDataModule.train_test_split: no seeding; int(N * train_size)
\* indices are sampled from the generator's current state.
TrainTestSplitSize(n, train_size) == IntOf(n, train_size)

TrainTestSplit(n, train_size, s) ==
    LET sm == Sample(n, TrainTestSplitSize(n, train_size), s)
    IN  [idx_1 |-> sm.out, idx_2 |-> SetDiff1d(n, sm.out), rng |-> sm.rng]

\* ------------------------------------------------------------------ state
VARIABLES
    model,       \* the model object's attributes (self.*)
    rng,         \* state of Python's global random generator
    seed,        \* the value last given to random.seed in this process
    splits,      \* the split calls made so far, in order
    pc,          \* position of the running entry point
    gens,        \* the batch generators built by the running call
    whole,       \* preprocess's whole-dataset batches (no mini-batching)
    epoch,       \* optimise's loop variable
    batch_idx,   \* enumerate(zip(*generators)) position
    loss,        \* the loss record of the last batch function call
    logger,      \* optimise's local training Logger
    val_logger,  \* self.val_logger
    events,      \* every batch-function call made by the running fit
    yielded,     \* the zipped batches drawn from the generators so far
    acc,         \* predict_*: the pre-allocated output accumulator
    writes,      \* predict_*: the [start, end) windows written so far
    results,     \* what the completed predict_* calls returned
    snap,        \* the call under way: its arguments, the object before it, its draw
    fs,          \* the paths at which a file exists
    model_path,  \* fit's local model_path while the model is being saved
    answers,     \* what the user typed at the overwrite prompts so far
    saved,       \* the torch.save calls made so far
    arg,         \* the arguments of the function call under way
    ret,         \* what the call returned
    trace        \* the optimizer and gradient operations of a batch step

vars == <<model, rng, seed, splits, pc, gens, whole, epoch, batch_idx, loss,
          logger, val_logger, events, yielded, acc, writes, results, snap,
          fs, model_path, answers, saved, arg, ret, trace>>

rngVars == <<rng, seed, splits>>
fitVars == <<whole, epoch, loss, logger, val_logger, events>>
predVars == <<acc, writes, results, snap>>
saveVars == <<fs, model_path, answers, saved>>
callVars == <<arg, ret, trace>>
extVars == <<saveVars, callVars>>
objVars == <<model, rngVars, pc, gens, batch_idx, fitVars, yielded, predVars>>

\* ------------------------------------------------------------ the object
Families == {"standard", "adversarial"}

NoLabels == <<>>

\* The rows of view v of an n-sample collection, and the collection.
ViewRows(v, n) == [i \in 1..n |-> [view |-> v, sample |-> i - 1]]
Collection(n) == [v \in Views |-> ViewRows(v, n)]

\* A label vector aligned with an n-sample collection: entry i belongs to
\* sample i.
LabelVector(n) == Arange(n)

\* The attributes a constructed model object carries before any call.
Constructed(family, bs, snp, joint) ==
    [class |-> "Optimisation", family |-> family, batch_size |-> bs,
     SNP_model |-> snp,
     joint_representation |-> joint, val_set |-> FALSE, n_epochs |-> 0,
     save_model |-> FALSE, loss_keys |-> {"total", "kl", "ll"},
     data |-> <<>>, labels |-> NoLabels, training |-> TRUE, params |-> 0]

BatchSizes == {None} \cup (1..MaxBatch)

\* ------------------------------------------------------ dataset adapters
\* An item of a dataset: x is the row delivered (view 0 stands for "the
\* rows of every view at that sample"), y the sample the delivered label
\* belongs to, or -1 when the dataset carries no labels.
Item(row, y) == [x |-> row, y |-> y]

\* MyDataset(data_): item k is row k of the view.
MyDataset(rows) == [k \in 1..Len(rows) |-> Item(rows[k], -1)]

\* MyDataset_labels(data_, labels): item k is (row k, labels[k]); its length
\* is the view's.
MyDataset_labels(rows, labels) ==
    [k \in 1..Len(rows) |-> Item(rows[k], labels[k])]

\* MyDataset_SNPs(data) over a whole collection (or over another adapter):
\* item k holds the k-th sample of what it wraps.
MyDataset_SNPs(data) ==
    [k \in 1..Len(data[1]) |-> Item([view |-> 0, sample |-> data[1][k].sample], -1)]

\* MVDataset(data, labels): item k is (the k-th row of every view, labels[k]).
MVDataset(data, labels) ==
    [k \in 1..Len(data[1]) |->
        Item([view |-> 0, sample |-> data[1][k].sample],
             IF labels = NoLabels THEN -1 ELSE labels[k])]

\* ------------------------------------------------------------ DataLoader
\* torch.utils.data.DataLoader(dataset, batch_size=bs, shuffle=False): with
\* an integer bs the batches are the consecutive windows of bs items, the
\* last one shorter (drop_last is off); with bs None automatic batching is
\* off and every single item is yielded on its own, without a batch axis.
DataLoader(dataset, bs) == [dataset |-> dataset, batch_size |-> bs]

\* len(generator).
NumBatches(g) ==
    IF g.batch_size = None THEN Len(g.dataset)
    ELSE CeilDiv(Len(g.dataset), g.batch_size)

\* The j-th (0-based) element the generator yields.
BatchAt(g, j) ==
    IF g.batch_size = None
    THEN [batched |-> FALSE, items |-> <<g.dataset[j + 1]>>]
    ELSE [batched |-> TRUE,
          items |-> SubSeq(g.dataset, j * g.batch_size + 1,
                           Min((j + 1) * g.batch_size, Len(g.dataset)))]

\* The number of rows of the shortest batch of a generator.
MinRows(g) ==
    CHOOSE r \in 0..Len(g.dataset) :
        /\ \A b \in 0..(NumBatches(g) - 1) : r <= Len(BatchAt(g, b).items)
        /\ \E b \in 0..(NumBatches(g) - 1) : r = Len(BatchAt(g, b).items)

\* zip(*generators) stops with the shortest generator.
RECURSIVE MinBatches(_)
MinBatches(generators) ==
    IF Len(generators) = 1 THEN NumBatches(generators[1])
    ELSE Min(NumBatches(generators[1]), MinBatches(Tail(generators)))

ZipLen(generators) == IF generators = <<>> THEN 0 ELSE MinBatches(generators)

\* The j-th element of zip(*generators): one batch per generator.
ZipAt(generators, j) == [v \in DOMAIN generators |-> BatchAt(generators[v], j)]

\* ------------------------------------------------- Batch generator factory
\* generate_data, plain branch: the batch size of one view's generator.
PlainBatchSz(m, rows) ==
    IF m.batch_size # None THEN m.batch_size ELSE Len(rows)

\* generate_data, labelled branch.
LabelledBatchSz(m, rows) ==
    IF m.batch_size # None THEN m.batch_size ELSE Len(rows)

\* generate_data, SNP branch: self.batch_size is handed on as it is.
SNPBatchSz(m) == m.batch_size

\* MyDataset_SNPs over an adapter built before: item k is the adapter's
\* item k.
MyDataset_SNPs_Over(adapter) == [k \in 1..Len(adapter) |-> adapter[k]]

\* generate_data, SNP branch, lines 20-21: `data = MyDataset_SNPs(data)` in
\* `for data_ in data` rebinds data, so the first adapter wraps the
\* collection and every later one wraps the adapter built before it.
RECURSIVE SNPAdapter(_, _)
SNPAdapter(data, v) ==
    IF v = 1 THEN MyDataset_SNPs(data)
    ELSE MyDataset_SNPs_Over(SNPAdapter(data, v - 1))

\* Optimisation_VAE.generate_data(data, labels): one generator per view.
\* The SNP branch never wraps the view data_.
GenerateData(m, data, labels) ==
    IF m.SNP_model
    THEN [v \in DOMAIN data |-> DataLoader(SNPAdapter(data, v), SNPBatchSz(m))]
    ELSE IF labels # NoLabels
    THEN [v \in DOMAIN data |->
            DataLoader(MyDataset_labels(data[v], labels),
                       LabelledBatchSz(m, data[v]))]
    ELSE [v \in DOMAIN data |->
            DataLoader(MyDataset(data[v]), PlainBatchSz(m, data[v]))]

\* The types a caller's labels can have: process_labels knows Series,
\* ndarray and list; "NoneType" stands for labels = None.
LabelTypes == {"NoneType", "ndarray", "list", "tuple"}

\* MultiviewDataModule.__init__: a batch_size that is not an int becomes the
\* sample count of the first view.  train_dataset and test_dataset are not
\* attributes of the object before setup.
DataModule(bs, is_validate, train_size, data, labels, labels_type) ==
    [class |-> "MultiviewDataModule",
     batch_size |-> IF bs = None THEN Len(data[1]) ELSE bs,
     whole_policy |-> (bs = None),
     is_validate |-> is_validate, train_size |-> train_size,
     data |-> data, labels |-> labels, labels_type |-> labels_type,
     is_setup |-> FALSE, train_dataset |-> <<>>, test_dataset |-> <<>>]

\* process_labels: an array for a Series, an ndarray or a list; the function
\* falls off its end (None) for any other type.
ProcessLabels(dm) ==
    IF dm.labels_type \in {"Series", "ndarray", "list"}
    THEN [dm EXCEPT !.labels_type = "ndarray"]
    ELSE [dm EXCEPT !.labels = NoLabels, !.labels_type = "NoneType"]

\* MultiviewDataModule.setup: the train and test datasets; sp is the split
\* drawn by train_test_split (unused without validation).
TrainDataset(dm, sp) ==
    IF dm.is_validate
    THEN MVDataset([v \in DOMAIN dm.data |-> Take(dm.data[v], sp.idx_1)],
                   IF dm.labels = NoLabels THEN NoLabels
                   ELSE Take(dm.labels, sp.idx_1))
    ELSE MVDataset(dm.data, dm.labels)

\* self.test_dataset: None (here the empty sequence) without validation.
TestDataset(dm, sp) ==
    IF dm.is_validate
    THEN MVDataset([v \in DOMAIN dm.data |-> Take(dm.data[v], sp.idx_2)],
                   IF dm.labels = NoLabels THEN NoLabels
                   ELSE Take(dm.labels, sp.idx_2))
    ELSE <<>>

\* train_dataloader() and val_dataloader(): one loader for all the views,
\* over the datasets the last setup has left on the object.
TrainDataloader(dm) == DataLoader(dm.train_dataset, dm.batch_size)
ValDataloader(dm) == DataLoader(dm.test_dataset, dm.batch_size)

\* ------------------------------------------------ splitting entry points
Seeds == {1, SplitSeed}

SplitRecord(fn, sd, n, f, sp, labels) ==
    [fn |-> fn, seed |-> sd, n |-> n, frac |-> f,
     idx_1 |-> sp.idx_1, idx_2 |-> sp.idx_2,
     lab_1 |-> IF labels = NoLabels THEN NoLabels ELSE Take(labels, sp.idx_1),
     lab_2 |-> IF labels = NoLabels THEN NoLabels ELSE Take(labels, sp.idx_2)]

\* random.seed(a) called by the program.
SeedRandom(a) ==
    /\ rng' = SeedState(a)
    /\ seed' = a
    /\ UNCHANGED <<model, splits, pc, gens, batch_idx, yielded>>
    /\ UNCHANGED <<fitVars, predVars>>
    /\ UNCHANGED extVars

\* Any other draw from the global generator: random.random() consumes two
\* 32-bit outputs.
Draw ==
    /\ rng.pos < 2 * MaxDraws
    /\ rng' = RngStep(RngStep(rng))
    /\ UNCHANGED <<model, seed, splits, pc, gens, batch_idx, yielded>>
    /\ UNCHANGED <<fitVars, predVars>>
    /\ UNCHANGED extVars

\* A call of Optimisation_VAE.data_split(data, split) on n-sample views.
CallDataSplit(n, split) ==
    /\ Len(splits) < MaxCalls
    /\ LET sp == DataSplit(n, split)
       IN  /\ splits' = Append(splits,
                   SplitRecord("data_split", SplitSeed, n, split, sp, NoLabels))
           /\ rng' = sp.rng
    /\ seed' = SplitSeed
    /\ UNCHANGED <<model, pc, gens, batch_idx, yielded>>
    /\ UNCHANGED <<fitVars, predVars>>
    /\ UNCHANGED extVars

\* A call of MultiviewDataModule.train_test_split with the given train_size
\* and labels (NoLabels when self.labels is None).
CallTrainTestSplit(n, train_size, labels) ==
    /\ Len(splits) < MaxCalls
    /\ LET sp == TrainTestSplit(n, train_size, rng)
       IN  /\ splits' = Append(splits,
                   SplitRecord("train_test_split", seed, n, train_size, sp, labels))
           /\ rng' = sp.rng
    /\ UNCHANGED <<model, seed, pc, gens, batch_idx, yielded>>
    /\ UNCHANGED <<fitVars, predVars>>
    /\ UNCHANGED extVars

IdleObject ==
    /\ pc = "idle"
    /\ gens = <<>>
    /\ whole = <<>>
    /\ epoch = 0
    /\ batch_idx = 0
    /\ loss = <<>>
    /\ logger = <<>>
    /\ val_logger = <<>>
    /\ events = <<>>
    /\ yielded = <<>>
    /\ acc = <<>>
    /\ writes = <<>>
    /\ results = <<>>
    /\ snap = <<>>

\* Nothing is being saved and no function call is under way.
IdleExt ==
    /\ fs = {}
    /\ model_path = <<>>
    /\ answers = <<>>
    /\ saved = <<>>
    /\ arg = <<>>
    /\ ret = <<>>
    /\ trace = <<>>

IdleRest == IdleObject /\ IdleExt

InitSplit ==
    /\ model = Constructed("standard", None, FALSE, TRUE)
    /\ seed \in Seeds
    /\ rng = SeedState(seed)
    /\ splits = <<>>
    /\ IdleRest

NextSplit ==
    \/ \E a \in Seeds : SeedRandom(a)
    \/ Draw
    \/ \E n \in 1..MaxN, f \in TrainFractions : CallDataSplit(n, f)
    \/ \E n \in 1..MaxN, f \in TrainFractions :
          CallTrainTestSplit(n, f, NoLabels)
    \/ \E n \in 1..MaxN, f \in TrainFractions :
          CallTrainTestSplit(n, f, LabelVector(n))

SpecSplit == InitSplit /\ [][NextSplit]_vars

\* ----------------------------------------------------------- split claims
\* The index lists of a recorded split partition {0, ..., n-1}.
IsPartition(r) ==
    /\ Range(r.idx_1) \cap Range(r.idx_2) = {}
    /\ Range(r.idx_1) \cup Range(r.idx_2) = 0..(r.n - 1)
    /\ Cardinality(Range(r.idx_1)) = Len(r.idx_1)
    /\ Cardinality(Range(r.idx_2)) = Len(r.idx_2)

\* C3: for every configured train fraction f and sample count n the split
\* yields round(f*n) training indices and n - round(f*n) validation indices,
\* and the two index sets are disjoint and cover exactly {0, ..., n-1}.
C3_SplitSizesRounded ==
    \A i \in DOMAIN splits :
        LET r == splits[i]
        IN  /\ Len(r.idx_1) = RoundOf(r.n, r.frac)
            /\ Len(r.idx_2) = r.n - RoundOf(r.n, r.frac)
            /\ IsPartition(r)

\* C5: two split calls with the same seed and the same sample count (and
\* the same fraction) return the same train and validation index sets,
\* whatever was drawn from the generator between them.
C5_SplitDeterministic ==
    \A i, j \in DOMAIN splits :
        (/\ splits[i].fn = splits[j].fn
         /\ splits[i].seed = splits[j].seed
         /\ splits[i].n = splits[j].n
         /\ splits[i].frac = splits[j].frac)
        => /\ Range(splits[i].idx_1) = Range(splits[j].idx_1)
           /\ Range(splits[i].idx_2) = Range(splits[j].idx_2)

\* ------------------------------------------- generator factory entry points
\* The caller's prelude to the factory (self.data = data; self.labels =
\* labels; generators = self.generate_data(self.data, labels=self.labels)).
GenerateCall(n, labels) ==
    /\ pc = "idle"
    /\ model.class = "Optimisation"
    /\ model' = [model EXCEPT !.data = Collection(n), !.labels = labels]
    /\ gens' = <<GenerateData(model, Collection(n), labels)>>
    /\ yielded' = << <<>> >>
    /\ pc' = "iterating"
    /\ UNCHANGED <<rngVars, batch_idx, fitVars, predVars>>
    /\ UNCHANGED extVars

\* MultiviewDataModule.setup(stage), lines 31-40: a hook the trainer calls
\* once per stage; every call with is_validate draws a new split.
Setup ==
    /\ pc = "idle"
    /\ model.class = "MultiviewDataModule"
    /\ model.is_validate => Len(splits) < MaxCalls
    /\ LET n  == Len(model.data[1])
           dm == IF model.labels_type # "NoneType" THEN ProcessLabels(model)
                 ELSE model
           sp == TrainTestSplit(n, dm.train_size, rng)
       IN  /\ model' = [dm EXCEPT !.is_setup = TRUE,
                                  !.train_dataset = TrainDataset(dm, sp),
                                  !.test_dataset = TestDataset(dm, sp)]
           /\ IF dm.is_validate
              THEN /\ splits' = Append(splits,
                          SplitRecord("train_test_split", seed, n,
                                      dm.train_size, sp, dm.labels))
                   /\ rng' = sp.rng
              ELSE UNCHANGED <<splits, rng>>
    /\ UNCHANGED <<seed, pc, gens, yielded, batch_idx, fitVars, predVars>>
    /\ UNCHANGED extVars

\* The loader calls made on the data module so far.
LoaderCalled(call) == \E i \in DOMAIN trace : trace[i].call = call

\* The caller's loader lists: <<train loaders, validation loaders>>.
LoadersSoFar == IF gens = <<>> THEN << <<>>, <<>> >> ELSE gens

\* train_dataloader(), lines 70-72; self.train_dataset does not exist before
\* setup (AttributeError).
CallTrainDataloader ==
    /\ pc = "idle"
    /\ model.class = "MultiviewDataModule"
    /\ ~LoaderCalled("train_dataloader")
    /\ trace' = Append(trace, [call |-> "train_dataloader", split |-> Len(splits)])
    /\ IF model.is_setup
       THEN /\ gens' = [LoadersSoFar EXCEPT ![1] = <<TrainDataloader(model)>>]
            /\ yielded' = << <<>>, <<>> >>
            /\ UNCHANGED pc
       ELSE /\ pc' = "crashed"
            /\ UNCHANGED <<gens, yielded>>
    /\ UNCHANGED <<model, rngVars, batch_idx, fitVars, predVars>>
    /\ UNCHANGED <<saveVars, arg, ret>>

\* val_dataloader(), lines 74-78: None without validation.
CallValDataloader ==
    /\ pc = "idle"
    /\ model.class = "MultiviewDataModule"
    /\ ~LoaderCalled("val_dataloader")
    /\ trace' = Append(trace, [call |-> "val_dataloader", split |-> Len(splits)])
    /\ IF ~model.is_validate
       THEN /\ gens' = LoadersSoFar
            /\ yielded' = << <<>>, <<>> >>
            /\ UNCHANGED pc
       ELSE IF model.is_setup
       THEN /\ gens' = [LoadersSoFar EXCEPT ![2] = <<ValDataloader(model)>>]
            /\ yielded' = << <<>>, <<>> >>
            /\ UNCHANGED pc
       ELSE /\ pc' = "crashed"
            /\ UNCHANGED <<gens, yielded>>
    /\ UNCHANGED <<model, rngVars, batch_idx, fitVars, predVars>>
    /\ UNCHANGED <<saveVars, arg, ret>>

\* One step of `for batch in zip(*generators)` over generator list l.
NextBatch(l) ==
    /\ IF model.class = "MultiviewDataModule"
       THEN pc \in {"idle", "iterating"}
       ELSE pc = "iterating"
    /\ Len(yielded[l]) < ZipLen(gens[l])
    /\ yielded' = [yielded EXCEPT
                     ![l] = Append(yielded[l], ZipAt(gens[l], Len(yielded[l])))]
    /\ pc' = "iterating"
    /\ UNCHANGED <<model, rngVars, gens, batch_idx, fitVars, predVars>>
    /\ UNCHANGED extVars

Exhausted(l) == Len(yielded[l]) = ZipLen(gens[l])

\* Every generator list has been consumed.
StopIteration ==
    /\ pc = "iterating"
    /\ \A l \in DOMAIN gens : Exhausted(l)
    /\ pc' = "exhausted"
    /\ UNCHANGED <<model, rngVars, gens, batch_idx, yielded, fitVars, predVars>>
    /\ UNCHANGED extVars

InitGen ==
    /\ \/ \E bs \in BatchSizes, snp \in BOOLEAN :
             model = Constructed("standard", bs, snp, TRUE)
       \/ \E bs \in BatchSizes, iv \in BOOLEAN, f \in TrainFractions,
             n \in 1..MaxN, lt \in LabelTypes :
             model = DataModule(bs, iv, f, Collection(n),
                                IF lt = "NoneType" THEN NoLabels
                                ELSE LabelVector(n), lt)
    /\ seed \in Seeds
    /\ rng = SeedState(seed)
    /\ splits = <<>>
    /\ IdleRest

NextGen ==
    \/ \E n \in 1..MaxN : GenerateCall(n, NoLabels)
    \/ \E n \in 1..MaxN : GenerateCall(n, LabelVector(n))
    \/ Setup
    \/ CallTrainDataloader
    \/ CallValDataloader
    \/ \E l \in DOMAIN gens : NextBatch(l)
    \/ StopIteration

SpecGen == InitGen /\ [][NextGen]_vars

\* -------------------------------------------------------- factory claims
RECURSIVE ConcatBatches(_, _)
ConcatBatches(steps, v) ==
    IF steps = <<>> THEN <<>>
    ELSE steps[1][v].items \o ConcatBatches(Tail(steps), v)

\* The samples a batch covers, in order.
BatchSamples(b) == [k \in 1..Len(b.items) |-> b.items[k].x.sample]

\* The split that was the data module's last one when loader list l was
\* asked for.
LoaderSplit(l) ==
    LET call == IF l = 1 THEN "train_dataloader" ELSE "val_dataloader"
    IN  trace[CHOOSE i \in DOMAIN trace : trace[i].call = call].split

\* The rows generator v of list l is built to deliver: the caller's view for
\* generate_data, the split's part of every view for the data module.
ExpectedRows(l, v) ==
    IF model.class = "Optimisation" THEN model.data[v]
    ELSE LET n   == Len(model.data[1])
             sp  == splits[LoaderSplit(l)]
             idx == IF ~model.is_validate THEN Arange(n)
                    ELSE IF l = 1 THEN sp.idx_1 ELSE sp.idx_2
         IN  [k \in 1..Len(idx) |-> [view |-> 0, sample |-> idx[k]]]

Generating == pc \in {"iterating", "exhausted"}

IntegerPolicy ==
    IF model.class = "Optimisation" THEN model.batch_size # None
    ELSE ~model.whole_policy

WholePolicy == ~IntegerPolicy

SNPBranch == model.class = "Optimisation" /\ model.SNP_model

\* What C6 asks of the generators built so far and of what they yielded.
MiniBatchContract ==
    \A l \in DOMAIN gens :
        /\ \A v \in DOMAIN gens[l] :
              /\ NumBatches(gens[l][v])
                    = CeilDiv(Len(ExpectedRows(l, v)), model.batch_size)
              /\ Exhausted(l) =>
                    /\ Len(yielded[l])
                          = CeilDiv(Len(ExpectedRows(l, v)), model.batch_size)
                    /\ [k \in 1..Len(ConcatBatches(yielded[l], v)) |->
                           ConcatBatches(yielded[l], v)[k].x]
                          = ExpectedRows(l, v)
        /\ \A j \in DOMAIN yielded[l] : \A v, w \in DOMAIN gens[l] :
              /\ yielded[l][j][v].batched
              /\ BatchSamples(yielded[l][j][v]) = BatchSamples(yielded[l][j][w])

\* C6: with an integer batch size b, every generator of a collection of n
\* samples yields ceil(n/b) batches, at every step the batches of all views
\* cover the same sample positions, and the concatenation of a view's
\* batches is the view's n rows in the original order.
C6_GenerateDataBatches ==
    (Generating /\ IntegerPolicy) => MiniBatchContract

\* The same outside the SNP branch: the plain and the labelled branch of
\* generate_data and the loaders of the data module.
MiniBatchGenerators ==
    (Generating /\ IntegerPolicy /\ ~SNPBranch) => MiniBatchContract

\* C7: under the whole-dataset policy every generator yields exactly one
\* batch that holds all the samples of its dataset, in the plain, the
\* labelled and the SNP branch of generate_data and for both loaders of the
\* data module.
C7_WholeDatasetOneBatch ==
    (Generating /\ WholePolicy) =>
        \A l \in DOMAIN gens : \A v \in DOMAIN gens[l] :
            Len(gens[l][v].dataset) >= 1 =>
                /\ NumBatches(gens[l][v]) = 1
                /\ BatchAt(gens[l][v], 0).batched
                /\ Len(BatchAt(gens[l][v], 0).items) = Len(gens[l][v].dataset)
                /\ Exhausted(l) => Len(yielded[l]) = 1

\* ------------------------------------------------------------ loss records
\* The keys of the record Optimisation_AAE.optimise_batch returns, lines
\* 419-422.
AAEKeys == {"recon", "disc", "gen"}

\* The key sets the record of a model's loss_function can have.  The
\* function belongs to the model class; what is known of it is that the
\* record carries the key the backward pass uses, loss['total'] in
\* optimise_batch (line 182).
LossFunctionKeySets == {{"total"}, {"total", "kl", "ll"}}

\* The keys of the record the object's loss_function returns.
LossFunctionKeys(m) == m.loss_keys

\* The keys of what self.optimise_batch returns: Optimisation_AAE builds its
\* own three-component record, Optimisation_VAE returns loss_function's.
OptimiseBatchKeys(m) ==
    IF m.family = "adversarial" THEN AAEKeys ELSE LossFunctionKeys(m)

\* The keys of what Optimisation_VAE.validate_batch returns (lines 186-191;
\* the adversarial class inherits it): loss_function's record.
ValidateBatchKeys(m) == LossFunctionKeys(m)

LossRecord(fn, m, e, j) ==
    [keys |-> IF fn = "optimise_batch" THEN OptimiseBatchKeys(m)
              ELSE ValidateBatchKeys(m),
     fn |-> fn, epoch |-> e, batch |-> j]

\* ------------------------------------------------------------------ Logger
\* Logger(): on_train_init(keys) opens one empty series per key;
\* on_step_fi(record) appends each value to the series of its key.  `steps`
\* remembers the key set of every record handed to on_step_fi.
NoLogger == [created |-> FALSE, fields |-> {}, logs |-> <<>>, steps |-> <<>>]

OnTrainInit(keys) ==
    [created |-> TRUE, fields |-> keys, logs |-> [k \in keys |-> <<>>],
     steps |-> <<>>]

OnStepFi(lg, rec) ==
    [created |-> TRUE, fields |-> lg.fields,
     logs |-> [k \in lg.fields |->
                  IF k \in rec.keys
                  THEN Append(lg.logs[k], <<rec.epoch, rec.batch>>)
                  ELSE lg.logs[k]],
     steps |-> Append(lg.steps, rec.keys)]

\* optimise, lines 138-143 and 152-157: the first epoch's record only opens
\* the logger, every later epoch's record is appended.
LogEpoch(lg, e, rec) ==
    IF e = 1 THEN OnTrainInit(rec.keys) ELSE OnStepFi(lg, rec)

\* ----------------------------------------------------------- the fit call
\* The `split` default of data_split's signature.
DefaultSplit == <<9, 10>>

\* fit, lines 238-245: the generator lists the fit builds; with a validation
\* set the views are split and generate_data gets the unsplit self.labels.
FitGenerators(m, data, labels) ==
    IF m.val_set
    THEN LET sp == DataSplit(Len(data[1]), DefaultSplit)
         IN  << GenerateData(m, [v \in DOMAIN data |-> Take(data[v], sp.idx_1)],
                             labels),
                GenerateData(m, [v \in DOMAIN data |-> Take(data[v], sp.idx_2)],
                             labels) >>
    ELSE << GenerateData(m, data, labels) >>

\* preprocess_run: the last element of zip(*generators).
PreprocessRun(generators) == ZipAt(generators, ZipLen(generators) - 1)

\* data_split indexes every view with the indices drawn for the first one
\* (lines 73-79): a view with fewer rows than the first raises IndexError.
SplitIndexError(data) == \E v \in DOMAIN data : Len(data[v]) < Len(data[1])

\* Mutant: fit stores its batch_size argument.
FitBatchSize_Arg(m, bs_arg) == bs_arg

\* fit, line 225: self.batch_size = self.batch_size; the argument is not read.
FitBatchSize(m, bs_arg) == m.batch_size

\* fit(*data, labels, save_model, n_epochs, batch_size, val_set) up to the
\* first epoch, on any collection of views.  The batch_size argument is not
\* used; self.batch_size keeps its value.  Nothing compares the views'
\* sample counts with each other or with the labels' length.
FitOn(data, labels, n_epochs, bs_arg, val_set, save_model) ==
    /\ pc = "idle"
    /\ model.class = "Optimisation"
    /\ LET m == [model EXCEPT !.n_epochs = n_epochs,
                              !.save_model = save_model,
                              !.batch_size = FitBatchSize(model, bs_arg),
                              !.data = data, !.labels = labels,
                              !.val_set = val_set]
       IN  /\ model' = m
           /\ IF val_set
              THEN /\ rng' = DataSplit(Len(data[1]), DefaultSplit).rng
                   /\ seed' = SplitSeed
              ELSE UNCHANGED <<rng, seed>>
           /\ IF val_set /\ SplitIndexError(data)
              THEN /\ gens' = <<>>
                   /\ whole' = <<>>
                   /\ pc' = "crashed"
              ELSE LET g == FitGenerators(m, data, labels)
                   IN  /\ gens' = g
                       /\ IF m.batch_size # None
                          THEN /\ whole' = <<>>
                               /\ pc' = "epoch"
                          ELSE IF \E l \in DOMAIN g : ZipLen(g[l]) = 0
                          THEN /\ whole' = <<>>
                               /\ pc' = "crashed"
                          ELSE /\ whole' = [l \in DOMAIN g |-> PreprocessRun(g[l])]
                               /\ pc' = "epoch"
    /\ epoch' = 1
    /\ arg' = [batch_size |-> bs_arg]
    /\ UNCHANGED <<splits, batch_idx, loss, logger, val_logger, events, yielded>>
    /\ UNCHANGED predVars
    /\ UNCHANGED <<saveVars, ret, trace>>

\* fit on an n-sample collection whose views and labels agree in length,
\* save_model left at its default.
Fit(n, labels, n_epochs, bs_arg, val_set) ==
    FitOn(Collection(n), labels, n_epochs, bs_arg, val_set, FALSE)

\* The effect of one batch function call on the model object.
AfterBatchFn(m, fn) ==
    IF fn = "optimise_batch"
    THEN [m EXCEPT !.params = m.params + 1,
                   !.training = IF m.family = "adversarial" THEN TRUE
                                ELSE m.training]
    ELSE [m EXCEPT !.training = FALSE]

\* Mutant: every mini-batch goes to optimise_batch.
IterateBatchFn_Optimise(m) == "optimise_batch"

\* iterate_batch, line 172: the batch function a mini-batch goes to.
IterateBatchFn(m) == IF m.val_set THEN "validate_batch" ELSE "optimise_batch"

Event(pass, fn, e, j, batch) ==
    [pass |-> pass, fn |-> fn, epoch |-> e, batch |-> j, data |-> batch]

\* for epoch in range(1, n_epochs + 1): self.init_optimisation()
EpochStart ==
    /\ pc = "epoch"
    /\ model' = [model EXCEPT !.training = TRUE]
    /\ batch_idx' = 0
    /\ pc' = "train"
    /\ UNCHANGED <<rngVars, gens, whole, epoch, loss, logger, val_logger,
                   events, yielded>>
    /\ UNCHANGED predVars
    /\ UNCHANGED extVars

\* One pass of the loop of iterate_batch over generator list l.
IterateBatch(pass, l, next) ==
    /\ model.batch_size # None
    /\ IF ZipLen(gens[l]) = 0
       THEN /\ pc' = "crashed"
            /\ UNCHANGED <<model, loss, events, batch_idx>>
       ELSE LET fn == IterateBatchFn(model)
            IN  /\ model' = AfterBatchFn(model, fn)
                /\ loss' = LossRecord(fn, model, epoch, batch_idx)
                /\ events' = Append(events,
                       Event(pass, fn, epoch, batch_idx, ZipAt(gens[l], batch_idx)))
                /\ IF batch_idx + 1 = ZipLen(gens[l])
                   THEN /\ pc' = next
                        /\ batch_idx' = 0
                   ELSE /\ pc' = pc
                        /\ batch_idx' = batch_idx + 1
    /\ UNCHANGED <<rngVars, gens, whole, epoch, logger, val_logger, yielded>>
    /\ UNCHANGED predVars
    /\ UNCHANGED extVars

\* loss = self.iterate_batch(generators, epoch)
TrainBatch ==
    /\ pc = "train"
    /\ IterateBatch("train", 1, "log_train")

\* loss = self.optimise_batch(data): the whole preprocessed dataset.
TrainWhole ==
    /\ pc = "train"
    /\ model.batch_size = None
    /\ model' = AfterBatchFn(model, "optimise_batch")
    /\ loss' = LossRecord("optimise_batch", model, epoch, 0)
    /\ events' = Append(events, Event("train", "optimise_batch", epoch, 0, whole[1]))
    /\ pc' = "log_train"
    /\ UNCHANGED <<rngVars, gens, whole, epoch, batch_idx, logger, val_logger,
                   yielded>>
    /\ UNCHANGED predVars
    /\ UNCHANGED extVars

\* Lines 138-143.
LogTrain ==
    /\ pc = "log_train"
    /\ logger' = LogEpoch(logger, epoch, loss)
    /\ pc' = IF model.val_set THEN "val" ELSE "epoch_end"
    /\ UNCHANGED <<model, rngVars, gens, whole, epoch, batch_idx, loss,
                   val_logger, events, yielded>>
    /\ UNCHANGED predVars
    /\ UNCHANGED extVars

\* val_loss = self.iterate_batch(val_generators, epoch)
ValBatch ==
    /\ pc = "val"
    /\ IterateBatch("val", 2, "log_val")

\* val_loss = self.validate_batch(val_data)
ValWhole ==
    /\ pc = "val"
    /\ model.batch_size = None
    /\ model' = AfterBatchFn(model, "validate_batch")
    /\ loss' = LossRecord("validate_batch", model, epoch, 0)
    /\ events' = Append(events, Event("val", "validate_batch", epoch, 0, whole[2]))
    /\ pc' = "log_val"
    /\ UNCHANGED <<rngVars, gens, whole, epoch, batch_idx, logger, val_logger,
                   yielded>>
    /\ UNCHANGED predVars
    /\ UNCHANGED extVars

\* Lines 152-157.
LogVal ==
    /\ pc = "log_val"
    /\ val_logger' = LogEpoch(val_logger, epoch, loss)
    /\ pc' = "epoch_end"
    /\ UNCHANGED <<model, rngVars, gens, whole, epoch, batch_idx, loss, logger,
                   events, yielded>>
    /\ UNCHANGED predVars
    /\ UNCHANGED extVars

\* The next round of the epoch loop.
NextEpoch ==
    /\ pc = "epoch_end"
    /\ epoch < model.n_epochs
    /\ epoch' = epoch + 1
    /\ pc' = "epoch"
    /\ UNCHANGED <<model, rngVars, gens, whole, batch_idx, loss, logger,
                   val_logger, events, yielded>>
    /\ UNCHANGED predVars
    /\ UNCHANGED extVars

\* Mutant: the epoch loop is left after any epoch.
FitReturn_Early ==
    /\ pc = "epoch_end"
    /\ model' = [model EXCEPT !.training = FALSE]
    /\ pc' = "finished"
    /\ UNCHANGED <<rngVars, gens, whole, epoch, batch_idx, loss, logger,
                   val_logger, events, yielded>>
    /\ UNCHANGED predVars
    /\ UNCHANGED extVars

\* optimise returns its logger; fit calls end_optimisation and returns it.
FitReturn ==
    /\ pc = "epoch_end"
    /\ epoch = model.n_epochs
    /\ model' = [model EXCEPT !.training = FALSE]
    /\ pc' = "finished"
    /\ UNCHANGED <<rngVars, gens, whole, epoch, batch_idx, loss, logger,
                   val_logger, events, yielded>>
    /\ UNCHANGED predVars
    /\ UNCHANGED extVars

Init ==
    /\ \E fam \in Families, bs \in BatchSizes, ks \in LossFunctionKeySets :
          model = [Constructed(fam, bs, FALSE, TRUE) EXCEPT !.loss_keys = ks]
    /\ seed \in Seeds
    /\ rng = SeedState(seed)
    /\ splits = <<>>
    /\ pc = "idle"
    /\ gens = <<>>
    /\ whole = <<>>
    /\ epoch = 0
    /\ batch_idx = 0
    /\ loss = <<>>
    /\ logger = NoLogger
    /\ val_logger = NoLogger
    /\ events = <<>>
    /\ yielded = <<>>
    /\ acc = <<>>
    /\ writes = <<>>
    /\ results = <<>>
    /\ snap = <<>>
    /\ fs = {}
    /\ model_path = <<>>
    /\ answers = <<>>
    /\ saved = <<>>
    /\ arg = <<>>
    /\ ret = <<>>
    /\ trace = <<>>

Next ==
    \/ \E n \in 1..MaxN, lab \in BOOLEAN, e \in 1..MaxEpochs,
          bs \in BatchSizes, vs \in BOOLEAN :
          Fit(n, IF lab THEN LabelVector(n) ELSE NoLabels, e, bs, vs)
    \/ EpochStart
    \/ TrainBatch
    \/ TrainWhole
    \/ LogTrain
    \/ ValBatch
    \/ ValWhole
    \/ LogVal
    \/ NextEpoch
    \/ FitReturn

Spec == Init /\ [][Next]_vars

\* fit on views of different sample counts, or with a label vector longer
\* than the views.
RaggedCollection(sizes) == [v \in Views |-> ViewRows(v, sizes[v])]

Mismatched(data, labels) ==
    \/ \E v, w \in DOMAIN data : Len(data[v]) # Len(data[w])
    \/ labels # NoLabels /\ Len(labels) # Len(data[1])

FitMismatched(sizes, nlabels, n_epochs, val_set) ==
    /\ Mismatched(RaggedCollection(sizes), LabelVector(nlabels))
    /\ nlabels = 0 \/ \A v \in Views : nlabels >= sizes[v]
    /\ FitOn(RaggedCollection(sizes), LabelVector(nlabels), n_epochs,
             model.batch_size, val_set, FALSE)

NextMismatch ==
    \/ \E sizes \in [Views -> 1..MaxN], nl \in 0..(MaxN + 1), vs \in BOOLEAN :
          FitMismatched(sizes, nl, 1, vs)
    \/ EpochStart
    \/ TrainBatch
    \/ TrainWhole
    \/ LogTrain
    \/ ValBatch
    \/ ValWhole
    \/ LogVal
    \/ FitReturn

SpecMismatch == Init /\ [][NextMismatch]_vars

\* The epoch loop and the batch loops are plain for loops: a running fit
\* always takes its next step.
SpecFair == Spec /\ WF_vars(Next)

\* -------------------------------------------------------------- fit claims
MiniBatchFit == pc # "idle" /\ model.batch_size # None

\* C1: in a mini-batch fit every batch drawn from the training generators
\* goes to optimise_batch, and validate_batch is used only for batches of a
\* validation pass, with and without a validation set.
C1_TrainBatchesOptimised ==
    MiniBatchFit =>
        \A i \in DOMAIN events :
            /\ events[i].pass = "train" => events[i].fn = "optimise_batch"
            /\ events[i].fn = "validate_batch" => events[i].pass = "val"

\* Every series of a created logger has exactly k entries.
HasEntries(lg, k) ==
    /\ lg.created
    /\ \A f \in lg.fields : Len(lg.logs[f]) = k

\* C2: the training logger fit returns has exactly n_epochs entries per loss
\* field, and with a validation set so has the validation logger.
C2_OneEntryPerEpoch ==
    pc = "finished" =>
        /\ HasEntries(logger, model.n_epochs)
        /\ model.val_set => HasEntries(val_logger, model.n_epochs)

\* C4: after a validation split with labels, in every train and validation
\* generator the label delivered at position k belongs to the sample the
\* view row delivered at position k belongs to.
C4_LabelsFollowRows ==
    (pc # "idle" /\ model.val_set /\ model.labels # NoLabels) =>
        \A l \in DOMAIN gens : \A v \in DOMAIN gens[l] :
            \A k \in DOMAIN gens[l][v].dataset :
                gens[l][v].dataset[k].y = gens[l][v].dataset[k].x.sample

\* The key sets handed to one logger agree with the fields it was opened
\* with.
KeysAgree(lg) == \A i \in DOMAIN lg.steps : lg.steps[i] = lg.fields

\* Every logger of the fit was given records with the keys it was opened
\* with.
LoggersKeysAgree ==
    \A lg \in {logger, val_logger} : lg.created => KeysAgree(lg)

\* C10: for every logger created during a fit the field names given to
\* on_train_init equal the key set of every record later given to
\* on_step_fi, and for the adversarial family that key set is exactly
\* {recon, disc, gen}.
C10_LoggerKeysAgree ==
    /\ LoggersKeysAgree
    /\ \A lg \in {logger, val_logger} :
          (lg.created /\ model.family = "adversarial") =>
              lg.fields = {"recon", "disc", "gen"}

\* A step of a validation pass: a batch (or the whole validation part) was
\* handed to a batch function.
ValidationStep == pc = "val" /\ pc' # "crashed"

\* C11: during a validation pass no optimizer is zeroed or stepped (the
\* parameters stay as they are) and the model is in evaluation mode, and the
\* validation loss records go to a logger instance of their own: the
\* training logger is left alone by the validation pass, and the validation
\* logger by the training pass.
C11_ValidationPassNoUpdate ==
    [][ /\ ValidationStep =>
              /\ model'.params = model.params
              /\ model'.training = FALSE
              /\ events'[Len(events')].pass = "val"
              /\ events'[Len(events')].fn = "validate_batch"
        /\ pc = "log_val" =>
              /\ logger' = logger
              /\ val_logger'.created
              /\ val_logger' # val_logger
        /\ pc = "log_train" => val_logger' = val_logger ]_vars

\* C11 witness: a mini-batch fit with a validation set finished after two
\* epochs or more, with both loggers filled.
C11_Witness ==
    /\ pc = "finished"
    /\ model.val_set
    /\ model.batch_size # None
    /\ model.n_epochs >= 2
    /\ \E i \in DOMAIN events : events[i].pass = "val"
    /\ logger.created /\ val_logger.created
    /\ val_logger.steps # <<>>

\* The training steps of epoch e, in the order they were taken.
TrainEvents(e) ==
    SelectSeq(events, LAMBDA ev : ev.pass = "train" /\ ev.epoch = e)

\* What a finished fit did in epoch e.
EpochDone(e) ==
    IF model.batch_size # None
    THEN /\ Len(TrainEvents(e)) = NumBatches(gens[1][1])
         /\ \A j \in 1..Len(TrainEvents(e)) :
               /\ TrainEvents(e)[j].batch = j - 1
               /\ TrainEvents(e)[j].data = ZipAt(gens[1], j - 1)
    ELSE /\ Len(TrainEvents(e)) = 1
         /\ TrainEvents(e)[1].data = whole[1]
         /\ \A v \in DOMAIN whole[1] :
               /\ whole[1][v].batched
               /\ Len(whole[1][v].items) = Len(gens[1][v].dataset)

FitRunning == pc \in {"epoch", "train", "log_train", "val", "log_val", "epoch_end"}

\* The training part the fit was given is not empty.
HasTrainingRows == gens # <<>> /\ ZipLen(gens[1]) > 0

\* C12: a fit ends after exactly n_epochs training epochs, never earlier: in
\* mini-batch mode every epoch took every batch of the training generators
\* once, in order; in whole-dataset mode every epoch took exactly one step on
\* the whole preprocessed training data; and a fit on a non-empty training
\* part does end.
C12_FitRunsAllEpochs ==
    /\ [](pc = "finished" =>
            /\ epoch = model.n_epochs
            /\ \A e \in 1..model.n_epochs : EpochDone(e)
            /\ \A i \in DOMAIN events : events[i].epoch \in 1..model.n_epochs)
    /\ ((FitRunning /\ HasTrainingRows) ~> (pc = "finished"))

\* C12 witness: fits of three epochs finished, one in mini-batches with a
\* short last batch, one on the whole dataset.
C12_Witness ==
    /\ pc = "finished"
    /\ model.n_epochs = MaxEpochs
    /\ Len(model.data[1]) = MaxN
    /\ model.batch_size # None => NumBatches(gens[1][1]) >= 2

\* C13: when the views have different sample counts, or the label vector's
\* length differs from the sample count, fit fails before any batch is
\* processed: no batch function is ever called on such input.
C13_MismatchFailsFast ==
    (pc # "idle" /\ Mismatched(model.data, model.labels)) =>
        /\ events = <<>>
        /\ pc \in {"crashed", "epoch", "train"}
        /\ pc # "finished"

\* ------------------------------------------------------- prediction core
\* reparameterise(mu, logvar) and sample_from_normal are sampling steps of
\* the model class.  The prediction methods set no seed and do not put the
\* object in evaluation mode (lines 287-335, 337-388, 527-556), so what the
\* sampling steps of one call draw is not fixed by the call's arguments: it
\* follows from the state the random generator is in when the call starts,
\* one of the outcomes.
Draws == {"eps_a", "eps_b"}

\* No sampling step is called.
NoDraw == "none"

\* The outcomes of the sampling steps of one batch, by class:
\* Optimisation_VAE and Optimisation_DVCCA call reparameterise,
\* Optimisation_AAE and Optimisation_AE call encode and decode only.
DrawsOf(class) ==
    IF class \in {"Optimisation_VAE", "Optimisation_DVCCA"} THEN Draws
    ELSE {NoDraw}

\* What encode / decode give for one sample: it depends on the array it is
\* written to, on the sample, on the parameters and on what was drawn.
Predicted(m, slot, row, eps) ==
    [slot |-> slot, sample |-> row.sample, params |-> m.params, eps |-> eps]

\* What one call of encode is handed: the rows, under the object's
\* parameters and mode, for the window [start, end).
Fed(m, start, end, rows) ==
    [start |-> start, end |-> end, rows |-> rows, params |-> m.params,
     training |-> m.training]

ReconClasses ==
    {"Optimisation_VAE", "Optimisation_AAE", "Optimisation_DVCCA",
     "Optimisation_AE"}

\* An output array of predict_reconstruction: name[i] or name[i][j] (j = 0
\* where there is one index only).
Slot(name, i, j) == [name |-> name, i |-> i, j |-> j]

\* The arrays a class's mini-batch predict_reconstruction creates before its
\* batch loop: lines 346-353, 433-441, 536-538, 597-598.
Allocated(class, joint) ==
    IF class = "Optimisation_VAE"
    THEN IF joint THEN {Slot("x_recon_out", i, 0) : i \in Views}
         ELSE {Slot("x_recon_out", i, j) : i \in Views, j \in Views}
    ELSE IF class = "Optimisation_AAE"
    THEN IF joint THEN {Slot("x_same", i, 0) : i \in Views}
         ELSE {Slot("x_same", i, 0) : i \in Views}
              \cup {Slot("x_cross", i, 0) : i \in Views}
    ELSE IF class = "Optimisation_DVCCA"
    THEN {Slot("x_recon", i, 0) : i \in Views}
    ELSE {}

\* The arrays a batch writes at [start:end]: lines 367-373, 454-459,
\* 548-549, 607-609.
Written(class, joint) ==
    IF class = "Optimisation_VAE"
    THEN IF joint THEN {Slot("x_recon_out", i, 0) : i \in Views}
         ELSE {Slot("x_recon_out", i, j) : i \in Views, j \in Views}
    ELSE IF class = "Optimisation_AAE"
    THEN IF joint THEN {Slot("x_same", i, 0) : i \in Views}
         ELSE {Slot("x_same", i, 0) : i \in Views}
              \cup {Slot("x_cross", i, 0) : i \in Views}
    ELSE IF class = "Optimisation_DVCCA"
    THEN {Slot("x_recon", i, 0) : i \in Views}
    ELSE {Slot("x_same", i, 0) : i \in Views}
         \cup {Slot("x_cross", i, 0) : i \in Views}

\* The class of an object of a family.
ClassOf(m) ==
    IF m.family = "adversarial" THEN "Optimisation_AAE" ELSE "Optimisation_VAE"

\* The arrays a mini-batch call creates before its batch loop.
\* predict_latents of Optimisation_VAE (lines 303-306): one joint array or
\* one per generator; of Optimisation_AAE (line 506): one per generator,
\* with and without a joint representation.
Slots(m, which, generators) ==
    IF which = "predict_reconstruction"
    THEN Allocated(ClassOf(m), m.joint_representation)
    ELSE IF m.family = "standard" /\ m.joint_representation
    THEN {Slot("predictions", 0, 0)}
    ELSE {Slot("predictions", v, 0) : v \in DOMAIN generators}

\* The arrays a batch writes, which are also the arrays the whole-dataset
\* path returns.  `for i, pred_ in enumerate(pred)` of the adversarial
\* predict_latents (lines 515-516) writes one array per element of what
\* encode returns: the single shared latent code of a joint representation
\* counts as one element.
WrittenSlots(m, which, generators) ==
    IF which = "predict_reconstruction"
    THEN Written(ClassOf(m), m.joint_representation)
    ELSE IF m.family = "adversarial" /\ m.joint_representation
    THEN {Slot("predictions", 1, 0)}
    ELSE Slots(m, which, generators)

\* The return statement of the mini-batch path: Optimisation_AAE's
\* predict_reconstruction calls .cpu() on its numpy accumulators (lines
\* 436-441, 466-468), which raises AttributeError.
ReturnRaises(class, which) ==
    class = "Optimisation_AAE" /\ which = "predict_reconstruction"

\* Mutant: the call also moves the parameters.
StoreArguments_Retrain(m, args) ==
    [m EXCEPT !.data = Collection(args.n), !.labels = args.labels,
              !.val_set = args.val_set, !.params = m.params + 1]

\* predict_latents of Optimisation_VAE, lines 288-290: the call's arguments
\* are stored on the object.
StoreArguments(m, args) ==
    [m EXCEPT !.data = Collection(args.n), !.labels = args.labels,
              !.val_set = args.val_set]

\* The calls that take labels and val_set and store them: the standard
\* family's predict_latents.  predict_reconstruction and the adversarial
\* predict_latents take the views only.
StoresArguments(m, args) ==
    args.which = "predict_latents" /\ m.family = "standard"

\* Lines 319-322: the window of batch batch_idx.
WindowStart(idx, batch_size) == idx * batch_size

\* Mutant: the last batch's end is not set to num_elements.
WindowEnd_Unclamped(idx, batch_size, num_batches, num_elements) ==
    WindowStart(idx, batch_size) + batch_size

WindowEnd(idx, batch_size, num_batches, num_elements) ==
    IF idx = num_batches - 1 THEN num_elements
    ELSE WindowStart(idx, batch_size) + batch_size

\* predictions[start:end, :] = pred on an array of n rows: the rows of pred
\* land on positions start+1 .. end (1-based), cut at the array's end.
WriteWindow(array, start, end, rows) ==
    [i \in 1..Len(array) |->
        IF i > start /\ i <= end /\ i - start <= Len(rows)
        THEN rows[i - start] ELSE array[i]]

\* zip(*generator) on one DataLoader: its batches are unpacked as the
\* arguments of zip, which pairs their rows and stops with the shortest
\* batch; preprocess_run keeps the last tuple, one row of every batch.
PreprocessRunLoader(g) ==
    LET rows == MinRows(g)
    IN  [b \in 1..NumBatches(g) |-> BatchAt(g, b - 1).items[rows]]

\* preprocess_run(generator, labels=True) on one DataLoader of a labelled
\* dataset: its one batch [X, Y] is unpacked as the arguments of zip, whose
\* tuples are (X,) and (Y,); of each the code takes element 0 as data and
\* element 1 as labels (IndexError when there is one row only), and it
\* returns [data, labels[0]] of the last tuple: [[Y[0]], Y[1]].
PreprocessRunLoader_Labels(g) ==
    << << g.dataset[1].y >>, g.dataset[2].y >>

\* preprocess(generators), lines 85-93, on the per-view generators of a
\* predict call: with self.val_set every element of the list is handed to
\* preprocess_run as if it were a list of generators.
Preprocess(m, generators, labels) ==
    IF m.val_set
    THEN IF labels # NoLabels
         THEN [k \in DOMAIN generators |->
                  PreprocessRunLoader_Labels(generators[k])]
         ELSE [k \in DOMAIN generators |-> PreprocessRunLoader(generators[k])]
    ELSE PreprocessRun(generators)

\* preprocess raises before it returns.
PreprocessRaises(m, generators, labels) ==
    /\ m.val_set
    /\ labels # NoLabels
    /\ \E k \in DOMAIN generators : Len(generators[k].dataset) < 2

\* The start of predict_latents / predict_reconstruction: up to the
\* allocation of the accumulators (mini-batches) or to the returned arrays
\* (whole dataset).
PredictStart(which, n, labels, val_set) ==
    /\ pc \in {"idle", "returned", "finished"}
    /\ Len(results) < MaxCalls
    /\ model.class = "Optimisation"
    \* the calls of one run are made on collections of one size
    /\ IF results = <<>> THEN TRUE ELSE n = results[1].args.n
    /\ LET args == [which |-> which, n |-> n, labels |-> labels, val_set |-> val_set]
           m    == IF StoresArguments(model, args)
                   THEN StoreArguments(model, args) ELSE model
           g    == GenerateData(m, Collection(n), labels)
           sl   == Slots(m, which, g)
           out  == WrittenSlots(m, which, g)
           \* the call ends in preprocess, before any sampling step
           ds   == IF m.batch_size = None /\ m.val_set THEN {NoDraw}
                   ELSE DrawsOf(ClassOf(m))
       IN  /\ StoresArguments(model, args) \/ (labels = NoLabels /\ ~val_set)
           /\ model' = m
           /\ \E eps \in ds : snap' = [args |-> args, before |-> model, draw |-> eps]
           /\ gens' = <<g>>
           /\ batch_idx' = 0
           /\ IF m.batch_size # None
              THEN /\ acc' = [s \in sl |-> [i \in 1..Len(g[1].dataset) |-> <<>>]]
                   /\ writes' = <<>>
                   /\ whole' = <<>>
                   /\ pc' = "predicting"
                   /\ UNCHANGED results
              ELSE IF m.val_set
              THEN \* preprocess takes the per-view generators for a
                   \* [train, validation] pair: it raises IndexError, or
                   \* what reaches encode is not a list of per-view tensors.
                   /\ acc' = <<>>
                   /\ writes' = <<>>
                   /\ whole' = IF PreprocessRaises(m, g, labels) THEN <<>>
                               ELSE <<Preprocess(m, g, labels)>>
                   /\ pc' = "crashed"
                   /\ UNCHANGED results
              ELSE /\ whole' = <<Preprocess(m, g, labels)>>
                   /\ writes' = << Fed(m, 0, Len(g[1].dataset),
                                       Preprocess(m, g, labels)) >>
                   /\ acc' = [s \in out |->
                                [i \in 1..Len(g[1].dataset) |->
                                    Predicted(m, s, g[1].dataset[i].x, snap'.draw)]]
                   /\ pc' = "returned"
                   /\ results' = Append(results,
                          [args |-> args, before |-> model, out |-> acc',
                           fed |-> writes'])
    /\ UNCHANGED <<rngVars, epoch, loss, logger, val_logger, events, yielded>>
    /\ UNCHANGED extVars

\* One round of `for batch_idx, local_batch in enumerate(zip(*generators))`.
PredictBatch ==
    /\ pc = "predicting"
    /\ batch_idx < ZipLen(gens[1])
    /\ LET g     == gens[1]
           start == WindowStart(batch_idx, g[1].batch_size)
           end   == WindowEnd(batch_idx, g[1].batch_size, NumBatches(g[1]),
                              Len(g[1].dataset))
           batch == ZipAt(g, batch_idx)
           out   == WrittenSlots(model, snap.args.which, g)
       IN  /\ writes' = Append(writes, Fed(model, start, end, batch))
           /\ acc' = [s \in DOMAIN acc |->
                        IF s \in out
                        THEN WriteWindow(acc[s], start, end,
                                [k \in 1..Len(batch[1].items) |->
                                    Predicted(model, s, batch[1].items[k].x,
                                              snap.draw)])
                        ELSE acc[s]]
    /\ batch_idx' = batch_idx + 1
    /\ UNCHANGED <<model, rngVars, pc, gens, whole, epoch, loss, logger,
                   val_logger, events, yielded, results, snap>>
    /\ UNCHANGED extVars

\* The accumulators are returned as plain arrays.
PredictReturn ==
    /\ pc = "predicting"
    /\ batch_idx = ZipLen(gens[1])
    /\ IF ReturnRaises(ClassOf(model), snap.args.which)
       THEN /\ pc' = "crashed"
            /\ UNCHANGED results
       ELSE /\ results' = Append(results,
                   [args |-> snap.args, before |-> snap.before, out |-> acc,
                    fed |-> writes])
            /\ pc' = "returned"
    /\ UNCHANGED <<model, rngVars, gens, whole, epoch, batch_idx, loss, logger,
                   val_logger, events, yielded, acc, writes, snap>>
    /\ UNCHANGED extVars

\* The object as an earlier fit left it: evaluation mode, some parameters,
\* val_set as that fit got it.
InitPredict ==
    /\ \E fam \in Families, bs \in BatchSizes, joint \in BOOLEAN, vs \in BOOLEAN :
          model = [Constructed(fam, bs, FALSE, joint) EXCEPT
                      !.val_set = vs, !.training = FALSE, !.params = 1,
                      !.n_epochs = 1]
    /\ seed = SplitSeed
    /\ rng = SeedState(seed)
    /\ splits = <<>>
    /\ IdleRest

NextPredict ==
    \/ \E which \in {"predict_latents", "predict_reconstruction"},
          n \in 1..MaxN, lab \in BOOLEAN, vs \in BOOLEAN :
          PredictStart(which, n, IF lab THEN LabelVector(n) ELSE NoLabels, vs)
    \/ PredictBatch
    \/ PredictReturn

SpecPredict == InitPredict /\ [][NextPredict]_vars

\* ------------------------------------------------------ prediction claims
\* The number of windows written so far that cover position i (0-based).
Covering(i) ==
    Cardinality({k \in DOMAIN writes :
                    writes[k].start <= i /\ i < writes[k].end})

MiniBatchPredict == pc \in {"predicting", "returned"} /\ model.batch_size # None

\* The batch loop of the call has ended.
LoopEnded == pc = "returned" \/ batch_idx = ZipLen(gens[1])

\* C8: the per-batch [start:end] writes of predict_latents and
\* predict_reconstruction cover every index of {0, ..., n-1} exactly once,
\* and the final batch's end equals n even when n % b # 0.
C8_WindowsPartition ==
    MiniBatchPredict =>
        LET n == Len(gens[1][1].dataset)
        IN  /\ \A i \in 0..(n - 1) : Covering(i) <= 1
            /\ \A k \in DOMAIN writes :
                  /\ 0 <= writes[k].start
                  /\ writes[k].start < writes[k].end
                  /\ writes[k].end <= n
            /\ LoopEnded =>
                  /\ \A i \in 0..(n - 1) : Covering(i) = 1
                  /\ writes[Len(writes)].end = n
                  /\ \A s \in WrittenSlots(model, snap.args.which, gens[1]) :
                        \A i \in 1..n : acc[s][i] # <<>>

\* C8 witness: a mini-batch prediction whose last batch is short returned.
C8_Witness ==
    /\ pc = "returned"
    /\ model.batch_size # None
    /\ Len(gens[1][1].dataset) % model.batch_size # 0
    /\ Len(writes) >= 2

\* The returned calls of predict_latents.
LatentCalls == {k \in DOMAIN results : results[k].args.which = "predict_latents"}

\* Two returned calls were made with the same arguments on the same
\* parameters.
SameCall(i, j) ==
    /\ results[i].args = results[j].args
    /\ results[i].before.params = results[j].before.params

\* Calls of predict_latents with the same input on the same parameters
\* return the same arrays.
SameOutputs ==
    \A i, j \in LatentCalls : SameCall(i, j) => results[i].out = results[j].out

\* Calls of predict_latents with the same input on the same parameters hand
\* encode the same rows, in the same order and for the same windows, under
\* the same parameters and mode.
SameEncodeInputs ==
    \A i, j \in LatentCalls : SameCall(i, j) => results[i].fed = results[j].fed

LastCallIsLatents ==
    /\ pc = "returned"
    /\ results # <<>>
    /\ results[Len(results)].args.which = "predict_latents"

\* The attributes that hold the last input handed to the object; every
\* other attribute is a parameter or a configuration attribute.
InputAttributes == {"data", "labels"}

\* C9 as stated: predict_latents called twice on the same input returns
\* identical outputs, and a call leaves the model state (parameters and
\* every configuration attribute) as it found it.
C9_PredictLatentsLeavesState ==
    /\ SameOutputs
    /\ LastCallIsLatents =>
          \A f \in (DOMAIN model) \ InputAttributes :
              model[f] = results[Len(results)].before[f]

StoredAttributes == {"data", "labels", "val_set"}

\* C9: a predict_latents call leaves the parameters and every attribute
\* other than data, labels and val_set as it found them, and the standard
\* family's call sets those three to its arguments; two calls on the same
\* input and parameters hand encode the same rows for the same windows.
C9_PredictLatentsIdempotent ==
    /\ SameEncodeInputs
    /\ LastCallIsLatents =>
          LET r == results[Len(results)]
          IN  /\ \A f \in (DOMAIN model) \ StoredAttributes :
                    model[f] = r.before[f]
              /\ model.family = "standard" =>
                    /\ model.data = Collection(r.args.n)
                    /\ model.labels = r.args.labels
                    /\ model.val_set = r.args.val_set
              /\ model.family # "standard" => model = r.before

\* C9 witness: two returned mini-batch predict_latents calls of the standard
\* family on the same input, the first of which found val_set set
\* otherwise; encode was handed the same batches in both.
C9_Witness ==
    /\ pc = "returned"
    /\ Len(results) = 2
    /\ model.family = "standard"
    /\ model.batch_size # None
    /\ results[1].args.which = "predict_latents"
    /\ results[1].args = results[2].args
    /\ results[1].before.val_set # results[1].args.val_set
    /\ Len(results[1].fed) >= 2
    /\ results[1].fed = results[2].fed

\* --------------------------------------------------- inference after fit
\* One object over its life: a fit of one epoch, then predict calls on the
\* views the fit was given.
NextInference ==
    \/ \E n \in 1..MaxN, lab \in BOOLEAN, bs \in BatchSizes, vs \in BOOLEAN :
          Fit(n, IF lab THEN LabelVector(n) ELSE NoLabels, 1, bs, vs)
    \/ EpochStart
    \/ TrainBatch
    \/ TrainWhole
    \/ LogTrain
    \/ ValBatch
    \/ ValWhole
    \/ LogVal
    \/ FitReturn
    \/ \E which \in {"predict_latents", "predict_reconstruction"} :
          /\ pc \in {"finished", "returned"}
          /\ PredictStart(which, Len(model.data[1]), NoLabels, FALSE)
    \/ PredictBatch
    \/ PredictReturn

SpecInference == Init /\ [][NextInference]_vars

\* A predict_reconstruction call on an object with batch_size None on which
\* an earlier fit(val_set=True) has left val_set set has come to its end.
ReconAfterValFit ==
    /\ pc \in {"returned", "crashed"}
    /\ snap # <<>>
    /\ snap.args.which = "predict_reconstruction"
    /\ snap.before.n_epochs > 0
    /\ snap.before.val_set
    /\ model.batch_size = None

\* C21: the val_set a fit left on the model does not change a later
\* inference call: after fit(val_set=True) with batch_size None,
\* predict_reconstruction(*views) makes one whole-dataset pass over the
\* per-view generators (preprocess gives the whole batch of every view) and
\* returns a row for every sample.
C21_ValSetNoEffectOnInference ==
    ReconAfterValFit =>
        /\ pc = "returned"
        /\ whole = <<PreprocessRun(gens[1])>>
        /\ \A v \in DOMAIN whole[1] :
              whole[1][v].items = gens[1][v].dataset
        /\ \A sl \in DOMAIN acc : Len(acc[sl]) = snap.args.n

\* The batch size generate_data gives a view's generator for the object's
\* batch_size attribute: the attribute, or the view's row count for None.
BatchSizeFor(m, g) ==
    IF m.batch_size # None THEN m.batch_size ELSE Len(g.dataset)

\* C22: the batch_size argument of fit has no effect: no step of a fit or of
\* a later predict call changes the object's batch_size attribute, and the
\* generators built by the fit and by later predict calls use the value the
\* attribute had before the fit (None meaning the whole dataset), whatever
\* batch_size the fit was given.
C22_FitBatchSizeIgnored ==
    /\ [][model'.batch_size = model.batch_size]_vars
    /\ [](\A l \in DOMAIN gens : \A v \in DOMAIN gens[l] :
             gens[l][v].batch_size = BatchSizeFor(model, gens[l][v]))

\* C22 witness: a fit given a batch_size other than the object's has
\* finished and a later predict call has returned, its generators built
\* with another batch size than the one the fit was given.
C22_Witness ==
    /\ pc = "returned"
    /\ arg # <<>>
    /\ arg.batch_size # model.batch_size
    /\ arg.batch_size # None
    /\ results # <<>>
    /\ gens[1][1].batch_size # arg.batch_size

\* ------------------------------------------------------- saving the model
\* os.path.join(self.output_path, stem + '.pkl') for a plain file stem.
OutputPath == "output_path"
Join(dir, stem) == [dir |-> dir, file |-> <<stem, ".pkl">>]

\* What the user may type at the prompt: the confirmation word or a suffix.
Answers == {"CONTINUE", "model", "a", "b"}
Stems == Answers \ {"CONTINUE"}

\* Mutant: any answer ends the loop.
Confirms_Any(option) == TRUE

\* Line 260: the answer that ends the loop with the path as it is.
Confirms(option) == option = "CONTINUE"

\* fit, line 255-256, after end_optimisation.
SaveBegin ==
    /\ pc = "finished"
    /\ IF model.save_model
       THEN /\ model_path' = Join(OutputPath, "model")
            /\ pc' = "save_check"
       ELSE /\ model_path' = model_path
            /\ pc' = "returned"
    /\ UNCHANGED <<model, rngVars, gens, batch_idx, fitVars, yielded, predVars>>
    /\ UNCHANGED <<fs, answers, saved, callVars>>

\* while os.path.exists(model_path)
ExistsCheck ==
    /\ pc = "save_check"
    /\ pc' = IF model_path \in fs THEN "prompt" ELSE "save"
    /\ UNCHANGED <<model, rngVars, gens, batch_idx, fitVars, yielded, predVars>>
    /\ UNCHANGED <<saveVars, callVars>>

\* option = str(input(...)); CONTINUE breaks, anything else is a suffix.
Answer(option) ==
    /\ pc = "prompt"
    /\ Len(answers) < MaxAnswers
    /\ answers' = Append(answers, option)
    /\ IF Confirms(option)
       THEN /\ model_path' = model_path
            /\ pc' = "save"
       ELSE /\ model_path' = Join(OutputPath, option)
            /\ pc' = "save_check"
    /\ UNCHANGED <<model, rngVars, gens, batch_idx, fitVars, yielded, predVars>>
    /\ UNCHANGED <<fs, saved, callVars>>

\* torch.save(self, model_path); the loss plots follow.
TorchSave ==
    /\ pc = "save"
    /\ saved' = Append(saved, [path |-> model_path, fs |-> fs, answers |-> answers])
    /\ fs' = fs \cup {model_path}
    /\ pc' = "plot"
    /\ UNCHANGED <<model, rngVars, gens, batch_idx, fitVars, yielded, predVars>>
    /\ UNCHANGED <<model_path, answers, callVars>>

\* The file the plotting collaborator leaves for a logger's history: one
\* loss-curve plot per title in the output path, not a .pkl file.
PlotFile(title) == [dir |-> OutputPath, file |-> << "plot_losses", title >>]

\* One plot_losses call: the logger it is given and the title.
PlotCall(lg, title) == [call |-> "plot_losses", logger |-> lg, title |-> title]

\* fit, line 265: self.plot_losses(logger); line 266 reads self.val_set.
PlotLosses ==
    /\ pc = "plot"
    /\ trace' = Append(trace, PlotCall(logger, ""))
    /\ fs' = fs \cup {PlotFile("")}
    /\ pc' = IF model.val_set THEN "plot_val" ELSE "returned"
    /\ UNCHANGED <<model, rngVars, gens, batch_idx, fitVars, yielded, predVars>>
    /\ UNCHANGED <<model_path, answers, saved, arg, ret>>

\* fit, line 267: self.plot_losses(self.val_logger, title='_validation').
PlotLossesValidation ==
    /\ pc = "plot_val"
    /\ trace' = Append(trace, PlotCall(val_logger, "_validation"))
    /\ fs' = fs \cup {PlotFile("_validation")}
    /\ pc' = "returned"
    /\ UNCHANGED <<model, rngVars, gens, batch_idx, fitVars, yielded, predVars>>
    /\ UNCHANGED <<model_path, answers, saved, arg, ret>>

\* A constructed object; some model files exist in output_path.
InitSave ==
    /\ \E fam \in Families, bs \in BatchSizes :
          model = Constructed(fam, bs, FALSE, TRUE)
    /\ seed = SplitSeed
    /\ rng = SeedState(seed)
    /\ splits = <<>>
    /\ pc = "idle"
    /\ gens = <<>> /\ whole = <<>> /\ epoch = 0 /\ batch_idx = 0 /\ loss = <<>>
    /\ logger = NoLogger /\ val_logger = NoLogger /\ events = <<>>
    /\ yielded = <<>> /\ acc = <<>> /\ writes = <<>> /\ results = <<>>
    /\ snap = <<>>
    /\ fs \in SUBSET {Join(OutputPath, st) : st \in Stems}
    /\ model_path = <<>>
    /\ answers = <<>>
    /\ saved = <<>>
    /\ arg = <<>> /\ ret = <<>> /\ trace = <<>>

\* A fit with or without save_model, from its call to its return.
NextSave ==
    \/ \E n \in 1..MaxSaveN, e \in 1..MaxSaveEpochs, vs \in BOOLEAN,
          sm \in BOOLEAN :
          FitOn(Collection(n), NoLabels, e, model.batch_size, vs, sm)
    \/ EpochStart
    \/ TrainBatch
    \/ TrainWhole
    \/ LogTrain
    \/ ValBatch
    \/ ValWhole
    \/ LogVal
    \/ NextEpoch
    \/ FitReturn
    \/ SaveBegin
    \/ ExistsCheck
    \/ \E option \in Answers : Answer(option)
    \/ TorchSave
    \/ PlotLosses
    \/ PlotLossesValidation

SpecSave == InitSave /\ [][NextSave]_vars

\* The stem the path should carry after the given answers: the last suffix
\* typed, or "model" when none was.
RECURSIVE LastSuffix(_)
LastSuffix(as) ==
    IF as = <<>> THEN "model"
    ELSE IF as[Len(as)] # "CONTINUE" THEN as[Len(as)]
    ELSE LastSuffix(SubSeq(as, 1, Len(as) - 1))

\* C14: the model is written only to a path at which no file exists, or to
\* an existing path for which the user answered CONTINUE; any other answer
\* is taken as a suffix, the path becomes output_path/<suffix>.pkl and the
\* existence check is repeated; no other file is touched.
C14_NoSilentOverwrite ==
    /\ \A i \in DOMAIN saved :
          /\ saved[i].path \in saved[i].fs =>
                /\ saved[i].answers # <<>>
                /\ saved[i].answers[Len(saved[i].answers)] = "CONTINUE"
          /\ saved[i].path = [dir |-> OutputPath,
                              file |-> <<LastSuffix(saved[i].answers), ".pkl">>]
          /\ \A k \in 1..(Len(saved[i].answers) - 1) :
                saved[i].answers[k] # "CONTINUE"
    /\ pc = "save" =>
          \/ model_path \notin fs
          \/ (answers # <<>> /\ answers[Len(answers)] = "CONTINUE")
    /\ pc = "save_check" /\ answers # <<>> =>
          model_path.file[1] = answers[Len(answers)]

\* C14 witness: the model was saved over an existing file after a suffix
\* that collided too and a final CONTINUE.
C14_Witness ==
    /\ pc = "returned"
    /\ Len(saved) = 1
    /\ Len(saved[1].answers) = 2
    /\ saved[1].answers[2] = "CONTINUE"
    /\ saved[1].path \in saved[1].fs
    /\ saved[1].path # [dir |-> OutputPath, file |-> <<"model", ".pkl">>]

\* ------------------------------------------- Optimisation_GVCCA.fit, folders
\* str(datetime.date.today()) is YYYY-MM-DD; a path is the sequence of its
\* pieces.
DateStr(date) == << date.y, "-", date.m, "-", date.d >>

\* str.replace(old, new) on the pieces of a string.
Replace(s, old, new) == [i \in DOMAIN s |-> IF s[i] = old THEN new ELSE s[i]]

\* format_folder, lines 277-285: init_path + '/' + model_type + '/' + date,
\* the date with '_' for '-'.
FormatFolder(output_dir, model_type, date) ==
    << output_dir, "/", model_type, "/" >> \o Replace(DateStr(date), "-", "_")

ModelTypes == {"GVCCA", "VAE"}
Dates == {[y |-> "2021", m |-> "03", d |-> "09"]}
UserPaths == {<< "results" >>}
NoPath == << >>

\* specify_folder(path), lines 270-275; format_folder makes the directory
\* when it does not exist.
SpecifyFolder(path, model_type, date, exists) ==
    /\ pc = "idle"
    /\ ret' = IF path = NoPath
              THEN [output_path |-> FormatFolder("./", model_type, date),
                    makedirs |-> ~exists]
              ELSE [output_path |-> path, makedirs |-> FALSE]
    /\ UNCHANGED <<objVars, saveVars, arg, trace>>

\* labels[start:end] on a vector: cut at its end, empty past it.
LabelSlice(labels, start, end) ==
    LET stop == Min(end, Len(labels))
    IN  IF stop <= start THEN << >>
        ELSE [i \in 1..(stop - start) |-> labels[start + i]]

\* Optimisation_GVCCA.fit(labels, *data, ...), lines 621-636, up to the
\* epoch loop of optimise (653-659): the generators carry no labels, no
\* validation set is split off, init_optimisation runs once.
GVCCAFit(data, labels, n_epochs, save_model, model_type, date, exists) ==
    /\ pc = "idle"
    /\ model.class = "Optimisation"
    /\ LET m == [model EXCEPT !.n_epochs = n_epochs,
                              !.save_model = save_model]
           g == GenerateData(m, data, NoLabels)
       IN  /\ model' = [m EXCEPT !.training = TRUE]
           /\ gens' = << g >>
           /\ whole' = IF m.batch_size # None THEN << >>
                       ELSE << Preprocess(m, g, NoLabels) >>
    /\ epoch' = 1
    /\ batch_idx' = 0
    /\ pc' = "gvcca_train"
    /\ arg' = [labels |-> labels,
               model_type |-> model_type, date |-> date, exists |-> exists]
    /\ UNCHANGED <<rngVars, loss, logger, val_logger, events, yielded>>
    /\ UNCHANGED predVars
    /\ UNCHANGED <<saveVars, ret, trace>>

\* What one optimise_batch call of Optimisation_GVCCA.optimise is given.
GVCCAEvent(e, j, batch, batch_labels) ==
    [pass |-> "train", fn |-> "optimise_batch", epoch |-> e, batch |-> j,
     data |-> batch, labels |-> batch_labels]

\* optimise, lines 660-672: one mini-batch with the labels of its window.
GVCCABatch ==
    /\ pc = "gvcca_train"
    /\ model.batch_size # None
    /\ LET generators   == gens[1]
           batch_size   == generators[1].batch_size
           num_elements == Len(generators[1].dataset)
           num_batches  == NumBatches(generators[1])
           start        == WindowStart(batch_idx, batch_size)
           end          == WindowEnd(batch_idx, batch_size, num_batches,
                                     num_elements)
       IN  /\ model' = AfterBatchFn(model, "optimise_batch")
           /\ loss' = LossRecord("optimise_batch", model, epoch, batch_idx)
           /\ events' = Append(events,
                  GVCCAEvent(epoch, batch_idx, ZipAt(generators, batch_idx),
                             LabelSlice(arg.labels, start, end)))
           /\ IF batch_idx + 1 = ZipLen(generators)
              THEN /\ pc' = "gvcca_log"
                   /\ batch_idx' = 0
              ELSE /\ pc' = pc
                   /\ batch_idx' = batch_idx + 1
    /\ UNCHANGED <<rngVars, gens, whole, epoch, logger, val_logger, yielded>>
    /\ UNCHANGED predVars
    /\ UNCHANGED extVars

\* optimise, lines 673-677: the whole preprocessed dataset with all labels.
GVCCAWhole ==
    /\ pc = "gvcca_train"
    /\ model.batch_size = None
    /\ model' = AfterBatchFn(model, "optimise_batch")
    /\ loss' = LossRecord("optimise_batch", model, epoch, 0)
    /\ events' = Append(events, GVCCAEvent(epoch, 0, whole[1], arg.labels))
    /\ pc' = "gvcca_log"
    /\ UNCHANGED <<rngVars, gens, whole, epoch, batch_idx, logger, val_logger,
                   yielded>>
    /\ UNCHANGED predVars
    /\ UNCHANGED extVars

\* optimise, lines 678-683, and the next round of the epoch loop.
GVCCALog ==
    /\ pc = "gvcca_log"
    /\ logger' = LogEpoch(logger, epoch, loss)
    /\ IF epoch < model.n_epochs
       THEN /\ epoch' = epoch + 1
            /\ pc' = "gvcca_train"
       ELSE /\ epoch' = epoch
            /\ pc' = "gvcca_save"
    /\ UNCHANGED <<model, rngVars, gens, whole, batch_idx, loss, val_logger,
                   events, yielded>>
    /\ UNCHANGED predVars
    /\ UNCHANGED extVars

\* fit, lines 637-639: with save_model the output path is format_folder()
\* and the overwrite loop starts, before end_optimisation.
GVCCASave ==
    /\ pc = "gvcca_save"
    /\ IF model.save_model
       THEN /\ ret' = [output_path |-> FormatFolder("./", arg.model_type, arg.date),
                       makedirs |-> ~arg.exists]
            /\ model_path' = Join(OutputPath, "model")
            /\ pc' = "save_check"
       ELSE /\ ret' = ret
            /\ model_path' = model_path
            /\ pc' = "gvcca_end"
    /\ UNCHANGED <<model, rngVars, gens, batch_idx, fitVars, yielded, predVars>>
    /\ UNCHANGED <<fs, answers, saved, arg, trace>>

\* fit, line 648, after torch.save: self.plot_losses(logger).
GVCCAPlotLosses ==
    /\ pc = "plot"
    /\ trace' = Append(trace, PlotCall(logger, ""))
    /\ fs' = fs \cup {PlotFile("")}
    /\ pc' = "gvcca_end"
    /\ UNCHANGED <<model, rngVars, gens, batch_idx, fitVars, yielded, predVars>>
    /\ UNCHANGED <<model_path, answers, saved, arg, ret>>

\* fit, lines 649-651: self.end_optimisation(); return logger.
GVCCAReturn ==
    /\ pc = "gvcca_end"
    /\ model' = [model EXCEPT !.training = FALSE]
    /\ pc' = "finished"
    /\ UNCHANGED <<rngVars, gens, batch_idx, fitVars, yielded, predVars>>
    /\ UNCHANGED extVars

InitGVCCA ==
    /\ \E bs \in BatchSizes : model = Constructed("standard", bs, FALSE, TRUE)
    /\ seed = SplitSeed
    /\ rng = SeedState(seed)
    /\ splits = <<>>
    /\ IdleObject
    /\ fs \in SUBSET {Join(OutputPath, st) : st \in {"model", "a"}}
    /\ model_path = <<>> /\ answers = <<>> /\ saved = <<>>
    /\ arg = <<>> /\ ret = <<>> /\ trace = <<>>

NextGVCCA ==
    \/ \E path \in UserPaths \cup {NoPath}, t \in ModelTypes, d \in Dates,
          ex \in BOOLEAN : SpecifyFolder(path, t, d, ex)
    \/ \E n \in 1..MaxN, nl \in 0..MaxN, e \in 1..MaxEpochs, sm \in BOOLEAN,
          t \in ModelTypes, d \in Dates, ex \in BOOLEAN :
          GVCCAFit(Collection(n), LabelVector(nl), e, sm, t, d, ex)
    \/ GVCCABatch
    \/ GVCCAWhole
    \/ GVCCALog
    \/ GVCCASave
    \/ ExistsCheck
    \/ \E option \in Answers : Answer(option)
    \/ TorchSave
    \/ GVCCAPlotLosses
    \/ GVCCAReturn

SpecGVCCA == InitGVCCA /\ [][NextGVCCA]_vars

\* ------------------------------------------------------------ centre_SNPs
\* Floating-point values: finite numbers, the infinities and not-a-number.
Num(k) == [kind |-> "num", v |-> k]
NaN == [kind |-> "nan", v |-> 0]
Inf == [kind |-> "inf", v |-> 1]
NegInf == [kind |-> "inf", v |-> -1]

\* IEEE subtraction a - b.
Minus(a, b) ==
    IF a = NaN \/ b = NaN THEN NaN
    ELSE IF a = Inf THEN (IF b = Inf THEN NaN ELSE Inf)
    ELSE IF a = NegInf THEN (IF b = NegInf THEN NaN ELSE NegInf)
    ELSE IF b = Inf THEN NegInf
    ELSE IF b = NegInf THEN Inf
    ELSE Num(a.v - b.v)

\* 2*MAF for an allele frequency given in halves (0, 1/2, ...), or not a
\* number.
Twice(half) == half

\* Mutant: not-a-number values are left in place.
NanToZero_Keep(x) == x

\* Line 117: data[torch.isnan(data)] = 0
NanToZero(x) == IF x = NaN THEN Num(0) ELSE x

\* centre_SNPs(data, MAF), lines 112-118: 2*MAF is subtracted from every row
\* twice (once broadcast, once repeated over the rows), then the
\* not-a-number entries are set to zero.
CentreSNPs(data, MAF) ==
    [i \in DOMAIN data |->
        [j \in DOMAIN data[i] |->
            NanToZero(Minus(Minus(data[i][j], Twice(MAF[j])), Twice(MAF[j])))]]

GenotypeValues == {Num(0), Num(1), NaN, Inf}
MAFHalves == {Num(0), Num(1), NaN}
SNPSamples == {1, 2}

CallCentreSNPs ==
    /\ ret = <<>>
    /\ arg # <<>>
    /\ ret' = CentreSNPs(arg.data, arg.MAF)
    /\ UNCHANGED <<objVars, saveVars, arg, trace>>

InitSNP ==
    /\ model = Constructed("standard", None, TRUE, TRUE)
    /\ seed = SplitSeed
    /\ rng = SeedState(seed)
    /\ splits = <<>>
    /\ IdleObject
    /\ fs = {} /\ model_path = <<>> /\ answers = <<>> /\ saved = <<>>
    /\ ret = <<>> /\ trace = <<>>
    /\ \E n \in SNPSamples, p \in 1..MaxSNPs :
          \E data \in [1..n -> [1..p -> GenotypeValues]],
             MAF \in [1..p -> MAFHalves] :
             arg = [data |-> data, MAF |-> MAF]

SpecSNP == InitSNP /\ [][CallCentreSNPs]_vars

\* The MAF of the call is zero for every SNP.
ZeroMAF == \A j \in DOMAIN arg.MAF : arg.MAF[j] = Num(0)

\* C15 as stated: centre_SNPs with an all-zero MAF returns its input
\* unchanged, entry for entry, and for any MAF the result holds no
\* not-a-number value.
C15_ZeroMAFUnchanged ==
    ret # <<>> =>
        /\ \A i \in DOMAIN ret : \A j \in DOMAIN ret[i] : ret[i][j] # NaN
        /\ ZeroMAF => ret = arg.data

\* C15: for any MAF the result of centre_SNPs has the shape of its input and
\* holds no not-a-number value; with an all-zero MAF every entry of the
\* input that is a number or an infinity is returned as it is, and every
\* entry that is not a number is returned as zero.
C15_CentreSNPs ==
    ret # <<>> =>
        /\ \A i \in DOMAIN ret : \A j \in DOMAIN ret[i] : ret[i][j] # NaN
        /\ DOMAIN ret = DOMAIN arg.data
        /\ ZeroMAF =>
              \A i \in DOMAIN ret : \A j \in DOMAIN ret[i] :
                  ret[i][j] = IF arg.data[i][j] = NaN THEN Num(0) ELSE arg.data[i][j]

\* C15 witness: a call with an all-zero MAF on a matrix with a missing, an
\* infinite and a finite entry: the missing one is returned as zero, the
\* others as they are.
C15_Witness ==
    /\ ret # <<>>
    /\ ZeroMAF
    /\ \E i \in DOMAIN ret : \E j \in DOMAIN ret[i] :
          arg.data[i][j] = NaN /\ ret[i][j] = Num(0)
    /\ \E i \in DOMAIN ret : \E j \in DOMAIN ret[i] :
          arg.data[i][j] = Inf /\ ret[i][j] = Inf
    /\ \E i \in DOMAIN ret : \E j \in DOMAIN ret[i] :
          arg.data[i][j] = Num(1) /\ ret[i][j] = Num(1)

\* ------------------------------------------------- one optimise_batch call
\* The operations of a batch step on optimizers and gradients: what is done
\* (op), to which optimizer group or with which loss (on), and to which
\* optimizer of the group (k, 0 where there is only one).
Op(op, on, k) == [op |-> op, on |-> on, k |-> k]

\* [optimizer.<op>() for optimizer in <group>]: one optimizer per view.
Each(op, group) == [v \in Views |-> Op(op, group, v)]

\* The max_norm of clip_grad_norm_, line 692: 0.5.
ClipMaxNorm == <<1, 2>>

\* p.data.clamp_(-0.01, 0.01), line 412: the bound 0.01.
ClampBound == <<1, 100>>

\* Optimisation_VAE.optimise_batch, lines 178-184.
VAEOptimiseBatch ==
    << Op("forward", "forward", 0), Op("loss", "total", 0) >>
    \o Each("zero_grad", "optimizers")
    \o << Op("backward", "total", 0) >>
    \o Each("step", "optimizers")

\* Mutant: the discriminator sub-step comes first.
AAEOptimiseBatch_DiscFirst(wasserstein) ==
    << Op("train", "model", 0),
       Op("forward", "forward_discrim", 0), Op("loss", "disc", 0),
       Op("zero_grad", "discriminator_optimizer", 0),
       Op("backward", "disc", 0),
       Op("step", "discriminator_optimizer", 0) >>
    \o (IF wasserstein THEN << Op("clamp", "discriminator", ClampBound) >> ELSE << >>)
    \o << Op("forward", "forward_recon", 0), Op("loss", "recon", 0) >>
    \o Each("zero_grad", "encoder_optimizers")
    \o Each("zero_grad", "decoder_optimizers")
    \o << Op("backward", "recon", 0) >>
    \o Each("step", "encoder_optimizers")
    \o Each("step", "decoder_optimizers")
    \o << Op("forward", "forward_gen", 0), Op("loss", "gen", 0) >>
    \o Each("zero_grad", "generator_optimizers")
    \o << Op("backward", "gen", 0) >>
    \o Each("step", "generator_optimizers")

\* Optimisation_AAE.optimise_batch, lines 395-422.
AAEOptimiseBatch(wasserstein) ==
    << Op("train", "model", 0),
       Op("forward", "forward_recon", 0), Op("loss", "recon", 0) >>
    \o Each("zero_grad", "encoder_optimizers")
    \o Each("zero_grad", "decoder_optimizers")
    \o << Op("backward", "recon", 0) >>
    \o Each("step", "encoder_optimizers")
    \o Each("step", "decoder_optimizers")
    \o << Op("forward", "forward_discrim", 0), Op("loss", "disc", 0),
          Op("zero_grad", "discriminator_optimizer", 0),
          Op("backward", "disc", 0),
          Op("step", "discriminator_optimizer", 0) >>
    \o (IF wasserstein THEN << Op("clamp", "discriminator", ClampBound) >> ELSE << >>)
    \o << Op("forward", "forward_gen", 0), Op("loss", "gen", 0) >>
    \o Each("zero_grad", "generator_optimizers")
    \o << Op("backward", "gen", 0) >>
    \o Each("step", "generator_optimizers")

\* Mutant: the gradients are clipped after the optimizers have stepped.
GVCCAOptimiseBatch_ClipLate ==
    << Op("forward", "forward", 0), Op("loss", "total", 0) >>
    \o Each("zero_grad", "optimizers")
    \o << Op("backward", "total", 0) >>
    \o Each("step", "optimizers")
    \o << Op("clip_grad_norm", ClipMaxNorm, 0) >>

\* Optimisation_GVCCA.optimise_batch, lines 687-693.
GVCCAOptimiseBatch ==
    << Op("forward", "forward", 0), Op("loss", "total", 0) >>
    \o Each("zero_grad", "optimizers")
    \o << Op("backward", "total", 0) >>
    \o << Op("clip_grad_norm", ClipMaxNorm, 0) >>
    \o Each("step", "optimizers")

OptimisationClasses ==
    {"Optimisation_VAE", "Optimisation_AAE", "Optimisation_GVCCA"}

\* The statements self.optimise_batch runs for the object's class.
OptimiseBatchOps(a) ==
    IF a.class = "Optimisation_AAE" THEN AAEOptimiseBatch(a.wasserstein)
    ELSE IF a.class = "Optimisation_GVCCA" THEN GVCCAOptimiseBatch
    ELSE VAEOptimiseBatch

\* self.optimise_batch(local_batch) is entered.
BatchCall ==
    /\ ~arg.running
    /\ ret < MaxBatch
    /\ arg' = [arg EXCEPT !.running = TRUE]
    /\ trace' = <<>>
    /\ UNCHANGED <<objVars, saveVars, ret>>

\* Its next statement runs.
BatchOp ==
    /\ arg.running
    /\ Len(trace) < Len(OptimiseBatchOps(arg))
    /\ trace' = Append(trace, OptimiseBatchOps(arg)[Len(trace) + 1])
    /\ UNCHANGED <<objVars, saveVars, arg, ret>>

\* return loss
BatchReturn ==
    /\ arg.running
    /\ Len(trace) = Len(OptimiseBatchOps(arg))
    /\ arg' = [arg EXCEPT !.running = FALSE]
    /\ ret' = ret + 1
    /\ UNCHANGED <<objVars, saveVars, trace>>

InitBatchStep ==
    /\ model = Constructed("standard", None, FALSE, TRUE)
    /\ seed = SplitSeed
    /\ rng = SeedState(seed)
    /\ splits = <<>>
    /\ IdleObject
    /\ fs = {} /\ model_path = <<>> /\ answers = <<>> /\ saved = <<>>
    /\ \E c \in OptimisationClasses, w \in BOOLEAN :
          arg = [class |-> c, wasserstein |-> w, running |-> FALSE]
    /\ ret = 0
    /\ trace = <<>>

NextBatchStep ==
    \/ BatchCall
    \/ BatchOp
    \/ BatchReturn

SpecBatchStep == InitBatchStep /\ [][NextBatchStep]_vars

\* ------------------------------------------------------ batch step claims
\* The sub-step an optimizer group or a loss belongs to: 1 reconstruction,
\* 2 discriminator, 3 generator (0: none).
SubStep(on) ==
    IF on \in {"encoder_optimizers", "decoder_optimizers", "recon", "forward_recon"}
    THEN 1
    ELSE IF on \in {"discriminator_optimizer", "discriminator", "disc",
                    "forward_discrim"}
    THEN 2
    ELSE IF on \in {"generator_optimizers", "gen", "forward_gen"} THEN 3
    ELSE 0

\* The place of an operation inside its sub-step.
Rank(op) ==
    IF op = "forward" THEN 1
    ELSE IF op = "loss" THEN 2
    ELSE IF op = "zero_grad" THEN 3
    ELSE IF op = "backward" THEN 4
    ELSE IF op = "clip_grad_norm" THEN 5
    ELSE IF op = "step" THEN 6
    ELSE IF op = "clamp" THEN 7
    ELSE 0

Positions(op, on) ==
    {i \in DOMAIN trace : trace[i].op = op /\ trace[i].on = on}

StepDone == arg.running /\ Len(trace) = Len(OptimiseBatchOps(arg))

\* C16: the adversarial optimise_batch runs the reconstruction, the
\* discriminator and the generator sub-step strictly in that order; inside a
\* sub-step its own optimizers are zeroed, then its loss is back-propagated,
\* then only its optimizers are stepped; with the Wasserstein critic the
\* discriminator weights are clamped after the discriminator step and before
\* the generator sub-step starts.
C16_AdversarialOrder ==
    arg.class = "Optimisation_AAE" =>
        /\ \A i, j \in DOMAIN trace :
              (i < j /\ SubStep(trace[i].on) # 0 /\ SubStep(trace[j].on) # 0) =>
                 \/ SubStep(trace[i].on) < SubStep(trace[j].on)
                 \/ /\ SubStep(trace[i].on) = SubStep(trace[j].on)
                    /\ Rank(trace[i].op) <= Rank(trace[j].op)
        /\ \A i \in DOMAIN trace :
              trace[i].op \in {"zero_grad", "backward", "step", "clamp"} =>
                 SubStep(trace[i].on) # 0
        /\ StepDone =>
              /\ \A l \in {"recon", "disc", "gen"} :
                    Cardinality(Positions("backward", l)) = 1
              /\ \A g \in {"encoder_optimizers", "decoder_optimizers",
                           "generator_optimizers"} :
                    /\ Cardinality(Positions("zero_grad", g)) = NViews
                    /\ Cardinality(Positions("step", g)) = NViews
              /\ Cardinality(Positions("zero_grad", "discriminator_optimizer")) = 1
              /\ Cardinality(Positions("step", "discriminator_optimizer")) = 1
              /\ Cardinality(Positions("clamp", "discriminator"))
                    = IF arg.wasserstein THEN 1 ELSE 0
              /\ \A i \in Positions("clamp", "discriminator") :
                    trace[i].k = <<1, 100>>

\* C16 witness: a Wasserstein adversarial step ran to its end.
C16_Witness ==
    /\ arg.class = "Optimisation_AAE"
    /\ arg.wasserstein
    /\ StepDone
    /\ ret >= 1
    /\ Positions("clamp", "discriminator") # {}

\* C17: the supervised family's optimise_batch clips the gradient norm (max
\* norm 0.5) after the backward pass and before any optimizer is stepped,
\* for every batch: the order is zero_grad, backward, clip, step.
C17_ClipBeforeStep ==
    arg.class = "Optimisation_GVCCA" =>
        /\ \A i, j \in DOMAIN trace :
              i < j => Rank(trace[i].op) <= Rank(trace[j].op)
        /\ \A i \in DOMAIN trace :
              trace[i].op = "clip_grad_norm" => trace[i].on = <<1, 2>>
        /\ \A i \in DOMAIN trace :
              trace[i].op = "step" =>
                 /\ \E c \in 1..(i - 1) : trace[c].op = "clip_grad_norm"
                 /\ \E b \in 1..(i - 1) : trace[b].op = "backward"
        /\ StepDone =>
              /\ Cardinality({i \in DOMAIN trace : trace[i].op = "clip_grad_norm"}) = 1
              /\ Cardinality(Positions("zero_grad", "optimizers")) = NViews
              /\ Cardinality(Positions("step", "optimizers")) = NViews
              /\ Cardinality(Positions("backward", "total")) = 1

\* C17 witness: the second batch of a supervised fit ran to its end.
C17_Witness ==
    /\ arg.class = "Optimisation_GVCCA"
    /\ StepDone
    /\ ret >= 1
    /\ \E i \in DOMAIN trace : trace[i].op = "clip_grad_norm"

\* ------------------------------------------- predict_reconstruction, by class
\* predict_reconstruction(*data) of the object's class, mini-batch path, up
\* to the batch loop.
ReconStart(n) ==
    /\ pc = "idle"
    /\ model.batch_size # None
    /\ LET g == GenerateData(model, Collection(n), NoLabels)
       IN  /\ gens' = <<g>>
           /\ acc' = [sl \in Allocated(arg.class, model.joint_representation) |->
                         [i \in 1..Len(g[1].dataset) |-> <<>>]]
    /\ \E eps \in DrawsOf(arg.class) : snap' = [draw |-> eps]
    /\ writes' = <<>>
    /\ batch_idx' = 0
    /\ pc' = "reconstructing"
    /\ UNCHANGED <<model, rngVars, fitVars, yielded, results>>
    /\ UNCHANGED <<saveVars, callVars>>

\* One round of the batch loop: every output of the batch is written to its
\* array at [start:end]; an array that is not there is an IndexError.
ReconBatch ==
    /\ pc = "reconstructing"
    /\ batch_idx < ZipLen(gens[1])
    /\ LET g     == gens[1]
           start == WindowStart(batch_idx, g[1].batch_size)
           end   == WindowEnd(batch_idx, g[1].batch_size, NumBatches(g[1]),
                              Len(g[1].dataset))
           batch == ZipAt(g, batch_idx)
           out   == Written(arg.class, model.joint_representation)
       IN  IF out \subseteq DOMAIN acc
           THEN /\ writes' = Append(writes, Fed(model, start, end, batch))
                /\ acc' = [sl \in DOMAIN acc |->
                             IF sl \in out
                             THEN WriteWindow(acc[sl], start, end,
                                     [k \in 1..Len(batch[1].items) |->
                                         Predicted(model, sl, batch[1].items[k].x,
                                                   snap.draw)])
                             ELSE acc[sl]]
                /\ batch_idx' = batch_idx + 1
                /\ pc' = pc
           ELSE /\ pc' = "IndexError"
                /\ UNCHANGED <<writes, acc, batch_idx>>
    /\ UNCHANGED <<model, rngVars, gens, fitVars, yielded, results, snap>>
    /\ UNCHANGED <<saveVars, callVars>>

\* The loop is over: the arrays are handed back.
ReconReturn ==
    /\ pc = "reconstructing"
    /\ batch_idx = ZipLen(gens[1])
    /\ IF ReturnRaises(arg.class, "predict_reconstruction")
       THEN /\ pc' = "AttributeError"
            /\ UNCHANGED results
       ELSE /\ results' = Append(results, acc)
            /\ pc' = "returned"
    /\ UNCHANGED <<model, rngVars, gens, batch_idx, fitVars, yielded, acc,
                   writes, snap>>
    /\ UNCHANGED <<saveVars, callVars>>

InitRecon ==
    /\ \E bs \in 1..MaxBatch, joint \in BOOLEAN :
          model = [Constructed("standard", bs, FALSE, joint) EXCEPT
                      !.training = FALSE, !.params = 1, !.n_epochs = 1]
    /\ seed = SplitSeed
    /\ rng = SeedState(seed)
    /\ splits = <<>>
    /\ IdleObject
    /\ fs = {} /\ model_path = <<>> /\ answers = <<>> /\ saved = <<>>
    /\ \E c \in ReconClasses : arg = [class |-> c]
    /\ ret = <<>>
    /\ trace = <<>>

NextRecon ==
    \/ \E n \in 1..MaxN : ReconStart(n)
    \/ ReconBatch
    \/ ReconReturn

SpecRecon == InitRecon /\ [][NextRecon]_vars

\* C18: for every model family the mini-batch predict_reconstruction has
\* created, before its first batch, one array of sample_count rows for every
\* output a batch writes, so that every write at [start:end] finds its array
\* and no batch raises an index error.
C18_AccumulatorsAllocated ==
    /\ pc # "IndexError"
    /\ pc = "reconstructing" =>
          /\ Written(arg.class, model.joint_representation) \subseteq DOMAIN acc
          /\ \A sl \in DOMAIN acc : Len(acc[sl]) = Len(gens[1][1].dataset)

\* ------------------------------------------------------------- MSE_results
\* The sum of the terms a for loop accumulates, in loop order.
RECURSIVE SumTerms(_)
SumTerms(terms) ==
    IF terms = <<>> THEN 0 ELSE Head(terms) + SumTerms(Tail(terms))

\* data_input = list(data); data_input[i] = np.zeros(...): a new list with
\* a new array at position i; the caller's arrays are not written.
ZeroedInput(data, i) == [v \in DOMAIN data |-> IF v = i THEN "zeros" ELSE data[v]]

\* Optimisation_VAE.MSE_results, lines 193-218, where every same-view term
\* np.mean((prediction - data[i])**2) is a.s and every cross-view term a.c.
\* The quotients are kept as numerator and denominator.
VAEMSEResults(a) ==
    LET SameRow == [i \in 1..a.n_views |-> a.s]
        CrossJoint == [i \in 1..a.n_views |-> a.c]
        CrossOf ==
            [i \in 1..a.n_views |->
                SumTerms([j \in 1..a.n_views |-> IF i = j THEN 0 ELSE a.c])]
    IN  IF a.joint
        THEN [same  |-> <<SumTerms(SameRow), a.n_views>>,
              cross |-> <<SumTerms(CrossJoint), a.n_views>>,
              inputs |-> [i \in 1..a.n_views |-> ZeroedInput(a.data, i)],
              data |-> a.data]
        ELSE [same  |-> <<SumTerms(SameRow), a.n_views>>,
              cross |-> <<SumTerms(CrossOf), a.n_views>>,
              inputs |-> <<>>,
              data |-> a.data]

\* Optimisation_AAE.MSE_results, lines 470-495.
AAEMSEResults(a) ==
    LET SameRow == [i \in 1..a.n_views |-> a.s]
        CrossRow == [i \in 1..a.n_views |-> a.c]
    IN  [same  |-> <<SumTerms(SameRow), a.n_views>>,
         cross |-> <<SumTerms(CrossRow), a.n_views>>,
         inputs |-> IF a.joint
                    THEN [i \in 1..a.n_views |-> ZeroedInput(a.data, i)]
                    ELSE <<>>,
         data |-> a.data]

MSEResults(a) ==
    IF a.class = "Optimisation_AAE" THEN AAEMSEResults(a) ELSE VAEMSEResults(a)

CallMSEResults ==
    /\ ret = <<>>
    /\ ret' = MSEResults(arg)
    /\ UNCHANGED <<objVars, saveVars, arg, trace>>

InitMSE ==
    /\ model = Constructed("standard", None, FALSE, TRUE)
    /\ seed = SplitSeed
    /\ rng = SeedState(seed)
    /\ splits = <<>>
    /\ IdleObject
    /\ fs = {} /\ model_path = <<>> /\ answers = <<>> /\ saved = <<>>
    /\ \E c \in {"Optimisation_VAE", "Optimisation_AAE"}, joint \in BOOLEAN,
          nv \in 2..MaxViews, sv \in 0..MaxTerm, cv \in 0..MaxTerm :
          arg = [class |-> c, joint |-> joint, n_views |-> nv, s |-> sv,
                 c |-> cv, data |-> [v \in 1..nv |-> <<"view", v>>]]
    /\ ret = <<>>
    /\ trace = <<>>

SpecMSE == InitMSE /\ [][CallMSEResults]_vars

\* C19: MSE_results returns same-view and cross-view errors that are each
\* averaged over the views: when every same-view term is s and every
\* cross-view term is c the result is (s, c), for every n_views, with and
\* without a joint representation; and the caller's view arrays are not
\* changed by the zeroing of a view's input.
C19_MSEAveraged ==
    ret # <<>> =>
        /\ ret.same[1] = arg.s * ret.same[2]
        /\ ret.cross[1] = arg.c * ret.cross[2]
        /\ ret.data = arg.data
        /\ \A i \in DOMAIN ret.inputs :
              /\ ret.inputs[i][i] = "zeros"
              /\ \A v \in DOMAIN arg.data : v # i => ret.inputs[i][v] = arg.data[v]

\* ---------------------------------------------------------------------
\* mVAE: the KL warmup of loss_function (multiviewae/models/mvae.py)
\* ---------------------------------------------------------------------

\* The warmup setting of the configuration: None or an integer.
WarmupNone == [is_none |-> TRUE, v |-> 0]

Warmup(k) == [is_none |-> FALSE, v |-> k]

\* torch.linspace(start, end, steps) with start = 0: a sequence of steps
\* values, each an exact fraction <<numerator, denominator>>; one step gives
\* the start value alone.
Linspace(end, steps) ==
    [i \in 1..steps |-> IF steps = 1 THEN <<0, 1>> ELSE <<end * (i - 1), steps - 1>>]

\* mVAE.__init__: beta_vals exists only when a warmup is configured.
mVAE(beta, warmup) ==
    [beta |-> beta, warmup |-> warmup,
     has_beta_vals |-> ~warmup.is_none,
     beta_vals |-> IF warmup.is_none THEN <<>> ELSE Linspace(beta, warmup.v)]

\* loss_function at self.current_epoch = e: the weight put on the KL term,
\* or the exception the comparison `self.current_epoch > self.warmup - 1`
\* raises when warmup is None.
LossFunction(m, e) ==
    IF m.warmup.is_none
    THEN [current_epoch |-> e, raised |-> "TypeError", weight |-> <<>>]
    ELSE IF e > m.warmup.v - 1
         THEN [current_epoch |-> e, raised |-> "", weight |-> <<m.beta, 1>>]
         ELSE [current_epoch |-> e, raised |-> "", weight |-> m.beta_vals[e + 1]]

CallLossFunction ==
    /\ \E e \in 0..MaxCurrentEpoch : ret' = LossFunction(arg, e)
    /\ UNCHANGED <<objVars, saveVars, arg, trace>>

InitWarmup ==
    /\ model = Constructed("standard", None, FALSE, TRUE)
    /\ seed = SplitSeed
    /\ rng = SeedState(seed)
    /\ splits = <<>>
    /\ IdleObject
    /\ fs = {} /\ model_path = <<>> /\ answers = <<>> /\ saved = <<>>
    /\ \E beta \in 0..MaxBeta,
          warmup \in {WarmupNone} \cup {Warmup(k) : k \in 0..MaxWarmup} :
          arg = mVAE(beta, warmup)
    /\ ret = <<>>
    /\ trace = <<>>

SpecWarmup == InitWarmup /\ [][CallLossFunction]_vars

\* a/b <= c/d for fractions with positive denominators
FracLeq(x, y) == x[1] * y[2] <= y[1] * x[2]

FracEq(x, y) == x[1] * y[2] = y[1] * x[2]

\* C20: the KL weight of mVAE.loss_function follows the warmup schedule: the
\* loss is computable at every epoch, also without a configured warmup; over
\* epochs 0 .. warmup-1 the weight lies on the line from 0 (epoch 0) to beta
\* (epoch warmup-1); it is not larger than the weight of the next epoch; and
\* from epoch warmup on (every epoch, without a warmup) it is beta.
C20_WarmupSchedule ==
    ret # <<>> =>
        /\ ret.raised = ""
        /\ LET e == ret.current_epoch
               w == IF arg.warmup.is_none THEN 0 ELSE arg.warmup.v
           IN  /\ e >= w => FracEq(ret.weight, <<arg.beta, 1>>)
               /\ e < w =>
                     /\ e = 0 => FracEq(ret.weight, <<0, 1>>)
                     /\ (w > 1 /\ e = w - 1) => FracEq(ret.weight, <<arg.beta, 1>>)
                     /\ w > 1 => FracEq(ret.weight, <<arg.beta * e, w - 1>>)
               /\ FracLeq(ret.weight, LossFunction(arg, e + 1).weight)

\* ---------------------------------------------------------------------
\* mVAE.calc_nll: the chunks of the K importance samples
\* ---------------------------------------------------------------------

\* Mutant: the start index moves on by one sample.
NextStartIdx_ByOne(start_idx, batch_size_K) == start_idx + 1

\* start_idx += batch_size_K
NextStartIdx(start_idx, batch_size_K) == start_idx + batch_size_K

\* stop_idx = min(stop_idx + batch_size_K, K)
NextStopIdx(stop_idx, batch_size_K, K) == Min(stop_idx + batch_size_K, K)

\* calc_nll up to the loop: start_idx = 0, stop_idx = min(batch_size_K, K),
\* lnpxs = [].
NLLEnter ==
    /\ ret = <<>>
    /\ ret' = [start_idx |-> 0,
               stop_idx |-> Min(0 + arg.batch_size_K, arg.K),
               returned |-> FALSE]
    /\ trace' = <<>>
    /\ UNCHANGED <<objVars, saveVars, arg>>

\* One round of `while start_idx < stop_idx`: the samples
\* zs[start_idx:stop_idx] give one entry of lnpxs.
NLLChunk ==
    /\ ret # <<>>
    /\ ~ret.returned
    /\ ret.start_idx < ret.stop_idx
    /\ trace' = Append(trace, [start_idx |-> ret.start_idx,
                               stop_idx |-> ret.stop_idx])
    /\ ret' = [ret EXCEPT
                 !.start_idx = NextStartIdx(ret.start_idx, arg.batch_size_K),
                 !.stop_idx = NextStopIdx(ret.stop_idx, arg.batch_size_K, arg.K)]
    /\ UNCHANGED <<objVars, saveVars, arg>>

\* The loop's condition fails: lnpxs is stacked and the value returned.
NLLReturn ==
    /\ ret # <<>>
    /\ ~ret.returned
    /\ ret.start_idx >= ret.stop_idx
    /\ ret' = [ret EXCEPT !.returned = TRUE]
    /\ UNCHANGED <<objVars, saveVars, arg, trace>>

InitNLL ==
    /\ model = Constructed("standard", None, FALSE, TRUE)
    /\ seed = SplitSeed
    /\ rng = SeedState(seed)
    /\ splits = <<>>
    /\ IdleObject
    /\ fs = {} /\ model_path = <<>> /\ answers = <<>> /\ saved = <<>>
    /\ \E k \in 1..MaxK, b \in 1..MaxBatchK : arg = [K |-> k, batch_size_K |-> b]
    /\ ret = <<>>
    /\ trace = <<>>

NextNLL ==
    \/ NLLEnter
    \/ NLLChunk
    \/ NLLReturn

\* The loop is a plain while loop of one thread: a call that can take its
\* next step takes it.
SpecNLLFair == InitNLL /\ [][NextNLL]_vars /\ WF_vars(NextNLL)

\* The windows processed so far are non-empty, inside {0, ..., K-1}, start
\* at 0 and follow each other without gap or overlap.
ChunksInOrder ==
    /\ \A i \in DOMAIN trace :
          /\ 0 <= trace[i].start_idx
          /\ trace[i].start_idx < trace[i].stop_idx
          /\ trace[i].stop_idx <= arg.K
    /\ trace # <<>> => trace[1].start_idx = 0
    /\ \A i \in DOMAIN trace :
          i > 1 => trace[i].start_idx = trace[i - 1].stop_idx

NLLReturned == ret # <<>> /\ ret.returned

\* C23: for every K >= 1 and batch_size_K >= 1 the chunking loop of calc_nll
\* terminates, and the windows [start_idx, stop_idx) it processes are
\* non-empty, pairwise disjoint, in increasing order, and cover exactly
\* {0, ..., K-1} when the loop has ended.
C23_ChunksPartition ==
    /\ [](ChunksInOrder
          /\ (NLLReturned =>
                 /\ trace # <<>>
                 /\ trace[Len(trace)].stop_idx = arg.K
                 /\ \A s \in 0..(arg.K - 1) :
                       Cardinality({i \in DOMAIN trace :
                           trace[i].start_idx <= s /\ s < trace[i].stop_idx}) = 1))
    /\ <>NLLReturned

\* C23 witness: a call whose K is not a multiple of batch_size_K has
\* returned after more than one chunk, the last one short.
C23_Witness ==
    /\ NLLReturned
    /\ arg.K % arg.batch_size_K # 0
    /\ Len(trace) >= 2
    /\ trace[Len(trace)].stop_idx - trace[Len(trace)].start_idx < arg.batch_size_K

====
